---------------------------- MODULE Spec2Model ----------------------------
(***************************************************************************)
(* Model of the lvfpgahdltools build scripts: the VHDL entity-port parser  *)
(* and instantiation emitter (tools/common.py), the Vivado file-set        *)
(* assemblers (tools/createvivadoproject.py, tools/common.py) and the      *)
(* LabVIEW data-type mappers (tools/genlvtargetsupport.py,                 *)
(* tools/migrateclip.py).                                                  *)
(*                                                                         *)
(* Python strings are sequences of one-character strings, so that split,   *)
(* strip, startswith, int() and the f-string formatting are computed the   *)
(* way the code computes them.                                             *)
(***************************************************************************)
EXTENDS Integers, Sequences, FiniteSets, TLC

VARIABLES
    \* --- data-type mappers (one CSV row / one CLIP signal) ---
    sig_type,       \* the DataType string handed to both mappers
    csv_run,        \* outcome of generate_vhdl_from_csv on a row of that type
    clip_run,       \* outcome of generate_clip_to_window_signals on a signal of that type
    \* --- entity-port parser and instantiation emitter ---
    vhdl_src,       \* how the VHDL source file was written: its shape, declarations and comment
    vhdl_file,      \* the VHDL source file: whether it exists, and its text
    parse_result,   \* what parse_vhdl_entity returned and reported
    inst_file,      \* the instantiation file generate_entity_instantiation writes
    \* --- file-set assemblers ---
    os_name,        \* os.name of the platform the scripts run on
    listfiles,      \* the configured listfile paths, each with its lines (or missing)
    dup_log,        \* duplicate_files.log in the working directory
    gathered,       \* the files in objects/gathereddeps
    asm_result,     \* what createvivadoproject.get_vivado_project_files returned or raised
    common_result,  \* what common.get_vivado_project_files returned or raised
    dup_checked,    \* what the last two calls of find_and_log_duplicates found
    \* --- legacy assembler and project creation ---
    legacy_result,  \* what vivadoprojecttools.get_vivado_project_files returned or raised
    project_file,   \* whether VivadoProject/<name>.xpr exists
    xilinx,         \* whether the environment variable XILINX is set
    project_run,    \* what the last call of create_project_handler did
    cwd,            \* the working directory of the process that calls create_project
    project_call,   \* what the last direct call of create_project did
    \* --- tree query helpers and CLIP descriptor reader ---
    xml_tree,       \* the parsed descriptor: its elements in document order
    lookup,         \* the last call of a tree query helper and what it gave
    clip_csv,       \* the rows process_clip_xml wrote, or its exit
    \* --- CLIP migration run ---
    migrate_env,    \* the files the migration finds: configuration, descriptor, HDL top, XDC files, outputs
    migrate_run,    \* how main of migrateclip ended and the artifacts it left
    \* --- signal table generators ---
    csv_table,      \* the data rows of the signal table (CSV)
    xml_out,        \* the BoardIO and clock trees generate_xml_from_csv wrote
    vhdl_out        \* the signal list generate_vhdl_from_csv rendered, or its exit

type_vars == <<sig_type, csv_run, clip_run>>

parse_vars == <<vhdl_src, vhdl_file, parse_result, inst_file>>

asm_vars == <<os_name, listfiles, dup_log, gathered, asm_result, common_result, dup_checked>>

proj_vars == <<legacy_result, project_file, xilinx, project_run>>

proc_vars == <<cwd, project_call>>

tree_vars == <<xml_tree, lookup, clip_csv>>

csv_vars == <<csv_table, xml_out, vhdl_out>>

mig_vars == <<migrate_env, migrate_run>>

vars == <<type_vars, parse_vars, asm_vars, csv_vars, proj_vars, tree_vars, mig_vars, proc_vars>>

\* what the operations of one tool leave alone: the state of the other tools
beside_types == <<parse_vars, asm_vars, csv_vars, proj_vars, tree_vars, mig_vars, proc_vars>>

beside_parse == <<type_vars, asm_vars, csv_vars, proj_vars, tree_vars, mig_vars, proc_vars>>

beside_asm == <<type_vars, parse_vars, csv_vars, proj_vars, tree_vars, mig_vars, proc_vars>>

beside_csv == <<type_vars, parse_vars, asm_vars, proj_vars, tree_vars, mig_vars, proc_vars>>

beside_asm_and_proj == <<type_vars, parse_vars, csv_vars, tree_vars, mig_vars, proc_vars>>

beside_tree == <<type_vars, parse_vars, asm_vars, csv_vars, proj_vars, mig_vars, proc_vars>>


beside_migrate == <<type_vars, parse_vars, asm_vars, csv_vars, proj_vars, tree_vars, proc_vars>>

beside_process == <<type_vars, parse_vars, csv_vars, tree_vars, mig_vars>>
----------------------------------------------------------------------------
(* Bounds of the model *)

\* largest FXP word length drawn
MaxWordLength == 12
\* largest FXP integer word length drawn (0..MaxIntWordLength)
MaxIntWordLength == 1
\* largest array size drawn
MaxArraySize == 3

----------------------------------------------------------------------------
(* Python str primitives over sequences of characters *)

Digits == <<"0", "1", "2", "3", "4", "5", "6", "7", "8", "9">>

IsDigit(c) == c \in {"0", "1", "2", "3", "4", "5", "6", "7", "8", "9"}

DigitVal(c) == (CHOOSE i \in 1..10 : Digits[i] = c) - 1

\* str.strip() with no argument strips these
Whitespace == {" ", "\t", "\n", "\r"}

SetMin(S) == CHOOSE x \in S : \A y \in S : x <= y

SetMax(S) == CHOOSE x \in S : \A y \in S : y <= x

\* index of the first character at or after i that is not in chars (Len + 1 if none)
RECURSIVE SkipForward(_, _, _)
SkipForward(s, chars, i) ==
    IF i > Len(s) THEN i
    ELSE IF s[i] \in chars THEN SkipForward(s, chars, i + 1) ELSE i

\* index of the last character at or before i that is not in chars (0 if none)
RECURSIVE SkipBackward(_, _, _)
SkipBackward(s, chars, i) ==
    IF i < 1 THEN 0
    ELSE IF s[i] \in chars THEN SkipBackward(s, chars, i - 1) ELSE i

\* s.strip(chars): drop leading and trailing characters that are in chars
StripChars(s, chars) ==
    LET first == SkipForward(s, chars, 1)
    IN  IF first > Len(s) THEN <<>> ELSE SubSeq(s, first, SkipBackward(s, chars, Len(s)))

\* s.strip()
Strip(s) == StripChars(s, Whitespace)

\* s.startswith(p)
StartsWith(s, p) == Len(s) >= Len(p) /\ SubSeq(s, 1, Len(p)) = p

\* s.endswith(p)
EndsWith(s, p) == Len(s) >= Len(p) /\ SubSeq(s, Len(s) - Len(p) + 1, Len(s)) = p

\* s.find(p, from) on 1-based positions; 0 when p does not occur at or after from
Find(s, p, from) ==
    LET hits == {i \in from..(Len(s) - Len(p) + 1) :
                    s[i] = p[1] /\ SubSeq(s, i, i + Len(p) - 1) = p}
    IN  IF hits = {} THEN 0 ELSE SetMin(hits)

\* p in s
Contains(s, p) == Find(s, p, 1) # 0

\* s.split(c) for a one-character separator c: always at least one piece
RECURSIVE Split(_, _)
Split(s, c) ==
    LET i == Find(s, <<c>>, 1)
    IN  IF i = 0 THEN <<s>>
        ELSE <<SubSeq(s, 1, i - 1)>> \o Split(SubSeq(s, i + 1, Len(s)), c)

\* s.replace(a, b) for one-character a and b
Replace(s, a, b) == [i \in 1..Len(s) |-> IF s[i] = a THEN b ELSE s[i]]

\* concatenation of a sequence of strings
RECURSIVE Concat(_)
Concat(ss) == IF ss = <<>> THEN <<>> ELSE Head(ss) \o Concat(Tail(ss))

\* a variant: the separator follows every item, the last included
Join_after_each(sep, ss) == Concat([k \in 1..Len(ss) |-> ss[k] \o sep])

\* sep.join(ss)
RECURSIVE Join(_, _)
Join(sep, ss) ==
    IF ss = <<>> THEN <<>>
    ELSE IF Len(ss) = 1 THEN ss[1]
    ELSE ss[1] \o sep \o Join(sep, Tail(ss))

RECURSIVE DigitsVal(_)
DigitsVal(s) ==
    IF s = <<>> THEN 0
    ELSE 10 * DigitsVal(SubSeq(s, 1, Len(s) - 1)) + DigitVal(s[Len(s)])

\* int(s): surrounding whitespace and one sign are accepted, then one or more
\* digits; anything else raises ValueError (ok = FALSE)
ParseInt(s) ==
    LET t    == Strip(s)
        neg  == t # <<>> /\ t[1] = "-"
        sgn  == t # <<>> /\ t[1] \in {"-", "+"}
        body == IF sgn THEN Tail(t) ELSE t
    IN  IF body # <<>> /\ \A i \in 1..Len(body) : IsDigit(body[i])
        THEN [ok |-> TRUE, val |-> IF neg THEN 0 - DigitsVal(body) ELSE DigitsVal(body)]
        ELSE [ok |-> FALSE, val |-> 0]

RECURSIVE FmtNat(_)
FmtNat(n) ==
    IF n < 10 THEN <<Digits[n + 1]>> ELSE FmtNat(n \div 10) \o <<Digits[(n % 10) + 1]>>

\* str(n) / f"{n}" of an integer
FmtInt(n) == IF n < 0 THEN <<"-">> \o FmtNat(0 - n) ELSE FmtNat(n)


----------------------------------------------------------------------------
(* String literals of the data-type grammar and of the VHDL types *)

S_Boolean == <<"B", "o", "o", "l", "e", "a", "n">>

S_FXP == <<"F", "X", "P">>

S_Array == <<"A", "r", "r", "a", "y">>

S_Unknown == <<"U", "n", "k", "n", "o", "w", "n">>

S_NA == <<"N", "/", "A">>

S_Signed == <<"S", "i", "g", "n", "e", "d">>

S_Unsigned == <<"U", "n", "s", "i", "g", "n", "e", "d">>

STD_LOGIC == <<"s", "t", "d", "_", "l", "o", "g", "i", "c">>

STD_LOGIC_VECTOR == <<"s", "t", "d", "_", "l", "o", "g", "i", "c", "_", "v", "e", "c", "t", "o", "r">>

DOWNTO == <<" ", "d", "o", "w", "n", "t", "o", " ">>

\* f"std_logic_vector({high} downto 0)"
SlvText(high) == STD_LOGIC_VECTOR \o <<"(">> \o FmtInt(high) \o DOWNTO \o <<"0", ")">>

\* a mapper call either returns a string or raises
Returned(v) == [exc |-> "none", vhdl |-> v]

Raised(e) == [exc |-> e, vhdl |-> <<>>]

----------------------------------------------------------------------------
(* genlvtargetsupport.map_datatype_to_vhdl: CSV DataType -> VHDL type *)

\* a variant: the word length is read from the second FXP parameter
fxp_branch_csv_second_param(data_type) ==
    LET a == Split(data_type, "(")
    IN  IF Len(a) < 2 THEN Returned(SlvText(31))
        ELSE LET params == Split(Split(a[2], ")")[1], ",")
                 word_length == IF Len(params) < 2 THEN [ok |-> FALSE, val |-> 0]
                                ELSE ParseInt(params[2])
             IN  IF word_length.ok THEN Returned(SlvText(word_length.val - 1))
                 ELSE Returned(SlvText(31))

\* the FXP branch: any exception inside the try gives the 32-bit default
fxp_branch_csv(data_type) ==
    LET a == Split(data_type, "(")
    IN  IF Len(a) < 2 THEN Returned(SlvText(31))
        ELSE LET params == Split(Split(a[2], ")")[1], ",")
                 word_length == ParseInt(params[1])
             IN  IF word_length.ok THEN Returned(SlvText(word_length.val - 1))
                 ELSE Returned(SlvText(31))

\* the Array branch: any exception inside the try gives the 32-bit default
array_branch_csv(data_type) ==
    LET b == Split(data_type, "[")
        c == Split(data_type, "<")
        default == Returned(SlvText(31))
    IN  IF Len(b) < 2 THEN default
        ELSE LET array_size == ParseInt(Split(b[2], "]")[1])
             IN  IF ~array_size.ok \/ Len(c) < 2 THEN default
                 ELSE LET element_type == Split(c[2], ">")[1]
                          element_width ==
                              IF element_type = S_Boolean THEN [ok |-> TRUE, val |-> 1]
                              ELSE IF StartsWith(element_type, <<"U">>)
                                      \/ StartsWith(element_type, <<"I">>)
                                   THEN ParseInt(Tail(element_type))
                                   ELSE [ok |-> TRUE, val |-> 32]
                      IN  IF ~element_width.ok THEN default
                          ELSE Returned(SlvText(array_size.val * element_width.val - 1))

map_datatype_to_vhdl(data_type) ==
    IF data_type = S_Boolean THEN Returned(STD_LOGIC)
    ELSE IF StartsWith(data_type, <<"U">>) \/ StartsWith(data_type, <<"I">>)
    THEN LET bit_width == ParseInt(Tail(data_type))
         IN  IF bit_width.ok THEN Returned(SlvText(bit_width.val - 1))
             ELSE Raised("ValueError")
    ELSE IF StartsWith(data_type, S_FXP) THEN fxp_branch_csv(data_type)
    ELSE IF StartsWith(data_type, S_Array) THEN array_branch_csv(data_type)
    ELSE Returned(STD_LOGIC)

----------------------------------------------------------------------------
(* migrateclip.map_lv_type_to_vhdl: descriptor data type -> VHDL type *)

\* last index of the maximal run of digits that starts at i (i - 1 when none)
RECURSIVE DigitRunEnd(_, _)
DigitRunEnd(s, i) ==
    IF i > Len(s) THEN i - 1
    ELSE IF IsDigit(s[i]) THEN DigitRunEnd(s, i + 1) ELSE i - 1

\* re.search(r'\((\d+) downto (\d+)\)', s): the leftmost match, if any
range_search(s) ==
    LET At(i) ==
            LET e1 == DigitRunEnd(s, i + 1)
                e2 == DigitRunEnd(s, e1 + 9)
            IN  [ok   |-> /\ s[i] = "("
                          /\ e1 >= i + 1
                          /\ e1 + 8 <= Len(s)
                          /\ SubSeq(s, e1 + 1, e1 + 8) = DOWNTO
                          /\ e2 >= e1 + 9
                          /\ e2 + 1 <= Len(s)
                          /\ s[e2 + 1] = ")",
                 e1 |-> e1, e2 |-> e2]
        hits == {i \in 1..Len(s) : At(i).ok}
    IN  IF hits = {} THEN [matched |-> FALSE, high |-> 0, low |-> 0]
        ELSE LET i == SetMin(hits)
             IN  [matched |-> TRUE,
                  high |-> DigitsVal(SubSeq(s, i + 1, At(i).e1)),
                  low  |-> DigitsVal(SubSeq(s, At(i).e1 + 9, At(i).e2))]

SimpleName(letter, w) == <<letter>> \o FmtInt(w)

IsSimpleInt(lv_type) ==
    \E l \in {"U", "I"}, w \in {8, 16, 32, 64} : lv_type = SimpleName(l, w)

\* the FXP branch: lv_type.strip("FXP(").strip(")").split(","), int(parts[0])
fxp_branch_lv(lv_type) ==
    LET parts == Split(StripChars(StripChars(lv_type, {"F", "X", "P", "("}), {")"}), ",")
        word_length == ParseInt(parts[1])
    IN  IF word_length.ok THEN Returned(SlvText(word_length.val - 1))
        ELSE Raised("ValueError")

RECURSIVE map_lv_type_to_vhdl(_)
map_lv_type_to_vhdl(lv_type) ==
    IF lv_type = S_Boolean THEN Returned(STD_LOGIC)
    ELSE IF IsSimpleInt(lv_type)
    THEN Returned(SlvText(ParseInt(Tail(lv_type)).val - 1))
    ELSE IF StartsWith(lv_type, S_FXP) THEN fxp_branch_lv(lv_type)
    ELSE IF StartsWith(lv_type, S_Array)
    THEN LET c == Split(lv_type, "<")
             b == Split(lv_type, "[")
         IN  IF Len(c) < 2 \/ Len(b) < 2 THEN Raised("IndexError")
             ELSE LET element_type == Split(c[2], ">")[1]
                      size == ParseInt(Split(b[2], "]")[1])
                      element_vhdl == map_lv_type_to_vhdl(element_type)
                      range_match == range_search(element_vhdl.vhdl)
                  IN  IF element_vhdl.exc # "none" THEN element_vhdl
                      ELSE IF ~size.ok THEN Raised("ValueError")
                      ELSE IF Contains(element_vhdl.vhdl, STD_LOGIC_VECTOR)
                              /\ range_match.matched
                           THEN Returned(SlvText(
                                    (range_match.high - range_match.low + 1) * size.val - 1))
                           ELSE Returned(SlvText(size.val * 32 - 1))
    ELSE Returned(SlvText(0))

----------------------------------------------------------------------------
(* migrateclip.extract_data_type: DataType element -> data-type string.     *)
(* The element is abstracted to what the function reads of it: which type   *)
(* child it has, and the texts of the FXP and Array children ("" = child    *)
(* missing or without text, for which get_element_text gives the default).  *)

SimpleTypes ==
    {S_Boolean} \cup {SimpleName(l, w) : l \in {"U", "I"}, w \in {8, 16, 32, 64}}

\* get_element_text(element, xpath, default) on the abstracted child text
get_element_text(text, default) == IF text # <<>> THEN text ELSE default

extract_data_type(element) ==
    IF element.tag = "None" THEN S_NA
    ELSE IF element.tag = "Simple" THEN element.name
    ELSE IF element.tag = "FXP"
    THEN S_FXP \o <<"(">> \o get_element_text(element.word_length, <<"?">>) \o <<",">>
         \o get_element_text(element.int_word_length, <<"?">>) \o <<",">>
         \o (IF element.unsigned THEN S_Unsigned ELSE S_Signed) \o <<")">>
    ELSE IF element.tag = "Array"
    THEN S_Array \o <<"<">>
         \o (IF element.subtype # <<>> THEN element.subtype ELSE S_Unknown)
         \o <<">", "[">> \o get_element_text(element.size, <<"?">>) \o <<"]">>
    ELSE S_Unknown

Elem(tag, name, wl, iwl, uns, size, sub) ==
    [tag |-> tag, name |-> name, word_length |-> wl, int_word_length |-> iwl,
     unsigned |-> uns, size |-> size, subtype |-> sub]

\* the DataType elements drawn: none, each simple type, FXP with present or
\* missing parameters, Array with present or missing size and element type
Elements ==
    {Elem("None", <<>>, <<>>, <<>>, FALSE, <<>>, <<>>),
     Elem("Other", <<>>, <<>>, <<>>, FALSE, <<>>, <<>>)}
    \cup {Elem("Simple", n, <<>>, <<>>, FALSE, <<>>, <<>>) : n \in SimpleTypes}
    \cup {Elem("FXP", <<>>, wl, iwl, u, <<>>, <<>>) :
            wl \in {FmtInt(w) : w \in 1..MaxWordLength} \cup {<<>>},
            iwl \in {FmtInt(i) : i \in (0 - 1)..MaxIntWordLength} \cup {<<>>},
            u \in BOOLEAN}
    \cup {Elem("Array", <<>>, <<>>, <<>>, FALSE, sz, sub) :
            sz \in {FmtInt(n) : n \in 1..MaxArraySize} \cup {<<>>},
            sub \in SimpleTypes \cup {S_FXP, <<>>}}

\* DataType cells a hand-edited CSV can hold besides the strings above
RawCsvTypes ==
    {<<>>, <<"U">>, <<"U", "8", "x">>, <<"I", "n", "t">>, S_FXP, S_Array,
     <<"f", "l", "o", "a", "t">>}

SigTypes == {extract_data_type(e) : e \in Elements} \cup RawCsvTypes

----------------------------------------------------------------------------
(* The two caller paths, on one row / one signal of type sig_type *)

NotRun == [status |-> "none", vhdl |-> <<>>]

\* genlvtargetsupport.generate_vhdl_from_csv on a CSV whose data row has this
\* DataType: an exception of the mapper ends the run with sys.exit(1)
generate_vhdl_from_csv ==
    /\ csv_run = NotRun
    /\ LET r == map_datatype_to_vhdl(sig_type)
       IN  csv_run' = IF r.exc = "none" THEN [status |-> "ok", vhdl |-> r.vhdl]
                      ELSE [status |-> "SystemExit", vhdl |-> <<>>]
    /\ UNCHANGED <<sig_type, clip_run, beside_types>>

\* migrateclip.generate_clip_to_window_signals on a descriptor whose signal has
\* this data type: an exception of the mapper makes it return False
generate_clip_to_window_signals ==
    /\ clip_run = NotRun
    /\ LET r == map_lv_type_to_vhdl(sig_type)
       IN  clip_run' = IF r.exc = "none" THEN [status |-> "ok", vhdl |-> r.vhdl]
                       ELSE [status |-> "False", vhdl |-> <<>>]
    /\ UNCHANGED <<sig_type, csv_run, beside_types>>

----------------------------------------------------------------------------
(* Regular-expression primitives used by parse_vhdl_entity *)

UpperCase == <<"A", "B", "C", "D", "E", "F", "G", "H", "I", "J", "K", "L", "M", "N", "O", "P", "Q", "R", "S", "T", "U", "V", "W", "X", "Y", "Z">>

LowerCase == <<"a", "b", "c", "d", "e", "f", "g", "h", "i", "j", "k", "l", "m", "n", "o", "p", "q", "r", "s", "t", "u", "v", "w", "x", "y", "z">>

IsLetter(c) == \E i \in 1..26 : c = UpperCase[i] \/ c = LowerCase[i]

UpperSet == {UpperCase[i] : i \in 1..26}

\* one character of str.lower() / of a re.IGNORECASE comparison
Lower(c) ==
    IF c \in UpperSet
    THEN LowerCase[CHOOSE i \in 1..26 : c = UpperCase[i]]
    ELSE c

LowerStr(s) == [i \in 1..Len(s) |-> Lower(s[i])]

\* \w
IsWordChar(c) == IsLetter(c) \/ IsDigit(c) \/ c = "_"

\* \s
IsReSpace(c) == c \in Whitespace

\* last index of the maximal run of \s characters that starts at i (i - 1 when
\* the run is empty)
RECURSIVE SpaceRunEnd(_, _)
SpaceRunEnd(s, i) ==
    IF i > Len(s) THEN i - 1
    ELSE IF IsReSpace(s[i]) THEN SpaceRunEnd(s, i + 1) ELSE i - 1

\* the same for a run of \w characters
RECURSIVE WordRunEnd(_, _)
WordRunEnd(s, i) ==
    IF i > Len(s) THEN i - 1
    ELSE IF IsWordChar(s[i]) THEN WordRunEnd(s, i + 1) ELSE i - 1

\* s[i..] starts with word w, ignoring case
WordAt(s, i, w) ==
    /\ i + Len(w) - 1 <= Len(s)
    /\ Lower(s[i]) = w[1]
    /\ LowerStr(SubSeq(s, i, i + Len(w) - 1)) = w

W_entity == <<"e", "n", "t", "i", "t", "y">>

W_is == <<"i", "s">>

W_port == <<"p", "o", "r", "t">>

\* re.compile(r'entity\s+(\w+)\s+is', re.IGNORECASE) matches at position i
EntityMatchAt(content, i) ==
    /\ WordAt(content, i, W_entity)
    /\ LET e1 == SpaceRunEnd(content, i + 6)
           e2 == WordRunEnd(content, e1 + 1)
           e3 == SpaceRunEnd(content, e2 + 1)
       IN  e1 >= i + 6 /\ e2 >= e1 + 1 /\ e3 >= e2 + 1 /\ WordAt(content, e3 + 1, W_is)

\* entity_pattern.search(content): the leftmost match, its group 1 and its end
entity_search(content) ==
    LET hits == {i \in 1..Len(content) : EntityMatchAt(content, i)}
    IN  IF hits = {} THEN [found |-> FALSE, name |-> <<>>, end |-> 0]
        ELSE LET i  == SetMin(hits)
                 e1 == SpaceRunEnd(content, i + 6)
                 e2 == WordRunEnd(content, e1 + 1)
                 e3 == SpaceRunEnd(content, e2 + 1)
             IN  [found |-> TRUE, name |-> SubSeq(content, e1 + 1, e2), end |-> e3 + 2]

\* re.compile(r'port\s*\(', re.IGNORECASE) matches at position i
PortMatchAt(content, i) ==
    /\ WordAt(content, i, W_port)
    /\ LET e == SpaceRunEnd(content, i + 4)
       IN  e + 1 <= Len(content) /\ content[e + 1] = "("

\* a variant: the search starts at the beginning of the text
port_search_from_start(content, after) ==
    LET hits == {i \in 1..Len(content) : PortMatchAt(content, i)}
    IN  IF hits = {} THEN [found |-> FALSE, port_start |-> 0]
        ELSE [found |-> TRUE,
              port_start |-> SpaceRunEnd(content, SetMin(hits) + 4) + 2]

\* port_start_pattern.search(content, pos): the leftmost match after index
\* after and the index of the character that follows its "("
port_search(content, after) ==
    LET hits == {i \in (after + 1)..Len(content) : PortMatchAt(content, i)}
    IN  IF hits = {} THEN [found |-> FALSE, port_start |-> 0]
        ELSE [found |-> TRUE,
              port_start |-> SpaceRunEnd(content, SetMin(hits) + 4) + 2]

----------------------------------------------------------------------------
(* common.parse_vhdl_entity *)

\* paren_level after the loop body has run on content[i], had the loop started
\* at port_start with level 1 and not stopped before
ParenLevelAt(content, port_start, i) ==
    1 + Cardinality({j \in port_start..i : content[j] = "("})
      - Cardinality({j \in port_start..i : content[j] = ")"})

\* the for loop that counts parentheses from port_start at level 1: it breaks
\* at the first ')' that brings the level to 0, which is port_end; without
\* such a ')' it runs to the end of the text (port_end 0 here) and leaves the
\* level of the whole rest of the text
scan_parens(content, port_start) ==
    LET closing == {i \in port_start..Len(content) :
                        content[i] = ")" /\ ParenLevelAt(content, port_start, i) = 0}
    IN  IF closing # {} THEN [paren_level |-> 0, port_end |-> SetMin(closing)]
        ELSE [paren_level |-> ParenLevelAt(content, port_start, Len(content)),
              port_end |-> 0]

\* re.sub(r'--.*?$', '', port_section, flags=re.MULTILINE): every line is cut
\* at its first "--"
strip_comments(port_section) ==
    LET lines == Split(port_section, "\n")
        cut(l) == LET k == Find(l, <<"-", "-">>, 1)
                  IN  IF k = 0 THEN l ELSE SubSeq(l, 1, k - 1)
    IN  Join(<<"\n">>, [k \in 1..Len(lines) |-> cut(lines[k])])

\* a variant: the names are taken from before the last ':' of the declaration
decl_names_last_colon(decl0) ==
    LET decl == Strip(decl0)
    IN  IF decl = <<>> \/ ~Contains(decl, <<":">>) THEN <<>>
        ELSE LET pieces == Split(decl, ":")
                 names_part == Strip(Join(<<":">>, SubSeq(pieces, 1, Len(pieces) - 1)))
                 raw == Split(names_part, ",")
             IN  SelectSeq([k \in 1..Len(raw) |-> Strip(raw[k])], LAMBDA n : n # <<>>)

\* the body of the loop over port_declarations: the names one declaration adds
decl_names(decl0) ==
    LET decl == Strip(decl0)
    IN  IF decl = <<>> \/ ~Contains(decl, <<":">>) THEN <<>>
        ELSE LET names_part == Strip(Split(decl, ":")[1])
                 raw == Split(names_part, ",")
             IN  SelectSeq([k \in 1..Len(raw) |-> Strip(raw[k])], LAMBDA n : n # <<>>)

\* what parse_vhdl_entity returns (entity_name is None when is_none) and the
\* error it prints
ParseReturn(is_none, entity_name, ports, error) ==
    [done |-> TRUE, is_none |-> is_none, entity_name |-> entity_name,
     ports |-> ports, error |-> error]

NotParsed ==
    [done |-> FALSE, is_none |-> TRUE, entity_name |-> <<>>, ports |-> <<>>,
     error |-> "none"]

\* a variant: when the parentheses never close, the text scanned so far is parsed
unbalanced_return_partial(content, entity_name, port_start) ==
    LET port_section == strip_comments(SubSeq(content, port_start, Len(content)))
        port_declarations == Split(port_section, ";")
    IN  ParseReturn(FALSE, entity_name,
                    Concat([k \in 1..Len(port_declarations) |->
                                decl_names(port_declarations[k])]),
                    "UnbalancedParentheses")

\* the return taken when paren_level != 0 after the loop
unbalanced_return(content, entity_name, port_start) ==
    ParseReturn(FALSE, entity_name, <<>>, "UnbalancedParentheses")

parse_vhdl_entity(file) ==
    IF ~file.exists THEN ParseReturn(TRUE, <<>>, <<>>, "FileNotFound")
    ELSE LET content == file.text
             entity_match == entity_search(content)
         IN  IF ~entity_match.found THEN ParseReturn(TRUE, <<>>, <<>>, "NoEntityFound")
             ELSE LET entity_name == entity_match.name
                      port_start_match == port_search(content, entity_match.end)
                  IN  IF ~port_start_match.found
                      THEN ParseReturn(FALSE, entity_name, <<>>, "NoPortSectionFound")
                      ELSE LET port_start == port_start_match.port_start
                               scan == scan_parens(content, port_start)
                           IN  IF scan.paren_level # 0
                               THEN unbalanced_return(content, entity_name, port_start)
                               ELSE LET port_section ==
                                            strip_comments(
                                                SubSeq(content, port_start, scan.port_end - 1))
                                        port_declarations == Split(port_section, ";")
                                    IN  ParseReturn(FALSE, entity_name,
                                            Concat([k \in 1..Len(port_declarations) |->
                                                        decl_names(port_declarations[k])]),
                                            "none")

----------------------------------------------------------------------------
(* common.generate_entity_instantiation *)

\* f"{entity_name}" of the parser's first result
FmtEntityName(r) == IF r.is_none THEN <<"N", "o", "n", "e">> ELSE r.entity_name

\* os.path.basename(vhdl_path) of the source file
VhdlBaseName == <<"t", "o", "p", ".", "v", "h", "d">>

\* the default of the architecture parameter
DefaultArchitecture == <<"r", "t", "l">>

\* a variant: the last port gets no association
port_mappings_drop_last(ports) ==
    [k \in 1..(Len(ports) - 1) |-> <<" ", " ", " ", " ">> \o ports[k] \o <<" ", "=", ">", " ">> \o ports[k]]

\* [f"    {port} => {port}" for port in ports]
port_mappings(ports) ==
    [k \in 1..Len(ports) |-> <<" ", " ", " ", " ">> \o ports[k] \o <<" ", "=", ">", " ">> \o ports[k]]

\* the text written to output_path
instantiation_text(r, architecture) ==
    <<"-", "-", " ", "E", "n", "t", "i", "t", "y", " ", "i", "n", "s", "t", "a", "n", "t", "i", "a", "t", "i", "o", "n", " ", "f", "o", "r", " ">> \o FmtEntityName(r) \o <<"\n">>
    \o <<"-", "-", " ", "G", "e", "n", "e", "r", "a", "t", "e", "d", " ", "f", "r", "o", "m", " ">> \o VhdlBaseName \o <<"\n", "\n">>
    \o FmtEntityName(r) \o <<":", " ", "e", "n", "t", "i", "t", "y", " ", "w", "o", "r", "k", ".">> \o FmtEntityName(r)
    \o <<" ", "(">> \o architecture \o <<")", "\n">>
    \o <<"p", "o", "r", "t", " ", "m", "a", "p", " ", "(">> \o <<"\n">>
    \o (IF port_mappings(r.ports) # <<>>
        THEN Join(<<",", "\n">>, port_mappings(r.ports)) ELSE <<>>)
    \o <<"\n", ")", ";", "\n">>

NotWritten == [written |-> FALSE, text |-> <<>>]

----------------------------------------------------------------------------
(* The VHDL source files the parser is run on *)

\* largest number of port declarations in a source file
MaxDecls == 2

N_a == <<"a">>

N_b == <<"b">>

N_ck == <<"c", "k">>

\* the name lists of the typed declarations: one name, two names, a repeated name
NameLists == {<<N_a>>, <<N_a, N_b>>, <<N_ck, N_a, N_a>>}

\* a declaration: names and a type (with or without parentheses, with or
\* without a default value), or a piece without ':' (empty, or stray text)
Decls ==
    {[kind |-> k, names |-> n] : k \in {"plain", "vector", "init"}, n \in NameLists}
    \cup {[kind |-> "noise", names |-> n] : n \in {<<>>, <<N_b>>}}

DeclText(d) ==
    <<" ", " ">> \o Join(<<",", " ">>, d.names)
    \o (CASE d.kind = "plain"  -> <<" ", ":", " ", "i", "n", " ", "s", "t", "d", "_", "l", "o", "g", "i", "c">>
          [] d.kind = "vector" -> <<" ", ":", " ", "o", "u", "t", " ", "u", "n", "s", "i", "g", "n", "e", "d", "(", "1", " ", "d", "o", "w", "n", "t", "o", " ", "0", ")">>
          [] d.kind = "init"   -> <<" ", ":", " ", "i", "n", " ", "s", "t", "d", "_", "l", "o", "g", "i", "c", " ", ":", "=", " ", "'", "1", "'">>
          [] OTHER             -> <<>>)

RECURSIVE SeqsUpTo(_, _)
SeqsUpTo(S, n) ==
    IF n = 0 THEN {<<>>}
    ELSE SeqsUpTo(S, n - 1) \cup {Append(q, x) : q \in SeqsUpTo(S, n - 1), x \in S}

Shapes ==
    {"full", "trailing_semicolon", "no_close", "open_type", "no_port", "no_entity",
     "missing_file"}

NoComment == [line |-> 0, kind |-> "none"]

\* a line comment: with the punctuation of a declaration, with a closing or
\* with an opening parenthesis
CommentText(kind) ==
    CASE kind = "punct" -> <<" ", "-", "-", " ", "x", ";", " ", "y", " ", ":", " ", "i", "n", " ", "z", ",", " ", "w">>
      [] kind = "close" -> <<" ", "-", "-", " ", "u", "p", " ", "t", "o", " ", "b", "i", "t", " ", "7", ")">>
      [] kind = "open"  -> <<" ", "-", "-", " ", "(", "s", "e", "e", " ", "n", "o", "t", "e">>
      [] OTHER          -> <<>>

\* a source as written, without comment (any shape) or complete and with one
\* line comment at the end of the "Port (" line (line 0) or of a declaration
\* line, or an entity without ports that follows a component declaration
\* with at most one port declaration
Sources ==
    [shape : Shapes, decls : SeqsUpTo(Decls, MaxDecls), comment : {NoComment}]
    \cup [shape : {"port_before"}, decls : SeqsUpTo(Decls, 1), comment : {NoComment}]
    \cup {src \in [shape : {"full"}, decls : SeqsUpTo(Decls, MaxDecls),
                     comment : [line : 0..MaxDecls, kind : {"punct", "close", "open"}]] :
              src.comment.line <= Len(src.decls)}

\* the port section of a source: the text between "Port (" and its ")"
SectionText(src) ==
    LET n == Len(src.decls)
        Cmt(k) == IF src.comment.line = k THEN CommentText(src.comment.kind) ELSE <<>>
    IN
    Cmt(0) \o <<"\n">>
    \o Concat([k \in 1..n |-> DeclText(src.decls[k])
                               \o (IF k < n THEN <<";">> \o Cmt(k) \o <<"\n">> ELSE <<>>)])
    \o (IF src.shape = "trailing_semicolon" THEN <<";">> ELSE <<>>)
    \o (IF src.shape = "open_type"
        THEN (IF src.decls # <<>> THEN <<";", "\n">> ELSE <<>>)
             \o <<" ", " ", "z", " ", ":", " ", "i", "n", " ", "u", "n", "s", "i", "g", "n", "e", "d", "(", "1", " ", "d", "o", "w", "n", "t", "o", " ", "0">>
        ELSE <<>>)
    \o (IF n > 0 THEN Cmt(n) ELSE <<>>)
    \o <<"\n">>

SourceText(src) ==
    CASE src.shape = "no_entity" ->
            <<"a", "r", "c", "h", "i", "t", "e", "c", "t", "u", "r", "e", " ", "r", "t", "l", " ", "o", "f", " ", "t", "o", "p", " ", "i", "s">> \o <<"\n">> \o <<"b", "e", "g", "i", "n">> \o <<"\n">> \o <<"e", "n", "d", " ", "r", "t", "l", ";">> \o <<"\n">>
      [] src.shape = "port_before" ->
            <<"c", "o", "m", "p", "o", "n", "e", "n", "t", " ", "s", "u", "b">> \o <<"\n">> \o <<" ", " ", "P", "o", "r", "t", " ", "(">> \o SectionText(src)
            \o <<")", ";">> \o <<"\n">> \o <<"e", "n", "d", " ", "c", "o", "m", "p", "o", "n", "e", "n", "t", ";">> \o <<"\n">>
            \o <<"E", "n", "t", "i", "t", "y", " ", "t", "o", "p", " ", "i", "s">> \o <<"\n">> \o <<"e", "n", "d", " ", "t", "o", "p", ";">> \o <<"\n">>
      [] src.shape = "no_port" ->
            <<"E", "n", "t", "i", "t", "y", " ", "t", "o", "p", " ", "i", "s">> \o <<"\n">> \o <<"e", "n", "d", " ", "t", "o", "p", ";">> \o <<"\n">>
      [] src.shape = "no_close" ->
            <<"E", "n", "t", "i", "t", "y", " ", "t", "o", "p", " ", "i", "s">> \o <<"\n">> \o <<" ", " ", "P", "o", "r", "t", " ", "(">> \o SectionText(src)
            \o <<"e", "n", "d", " ", "t", "o", "p", ";">> \o <<"\n">>
      [] OTHER ->
            <<"E", "n", "t", "i", "t", "y", " ", "t", "o", "p", " ", "i", "s">> \o <<"\n">> \o <<" ", " ", "P", "o", "r", "t", " ", "(">> \o SectionText(src)
            \o <<")", ";", "\n">> \o <<"e", "n", "d", " ", "t", "o", "p", ";">> \o <<"\n">>

SourceFile(src) ==
    IF src.shape = "missing_file" THEN [exists |-> FALSE, text |-> <<>>]
    ELSE [exists |-> TRUE, text |-> SourceText(src)]

----------------------------------------------------------------------------
(* Operations on the source file *)

\* a direct call of parse_vhdl_entity(vhdl_path)
ParseVhdlEntity ==
    /\ ~parse_result.done
    /\ parse_result' = parse_vhdl_entity(vhdl_file)
    /\ UNCHANGED <<vhdl_src, vhdl_file, inst_file, beside_parse>>

\* generate_entity_instantiation(vhdl_path, output_path): parses the source
\* and writes the instantiation file
GenerateEntityInstantiation ==
    /\ ~inst_file.written
    /\ LET r == parse_vhdl_entity(vhdl_file)
       IN  /\ parse_result' = r
           /\ inst_file' = [written |-> TRUE,
                            text |-> instantiation_text(r, DefaultArchitecture)]
    /\ UNCHANGED <<vhdl_src, vhdl_file, beside_parse>>

ParseNext ==
    \/ ParseVhdlEntity
    \/ GenerateEntityInstantiation

----------------------------------------------------------------------------
(* Paths, the file system the assemblers read, and Python's string order *)

\* the printable ASCII characters in code-point order; the backquote, which
\* no path here holds, is left out
Ascii ==
    <<" ", "!", "\"", "#", "$", "%", "&", "'", "(", ")", "*", "+", ",", "-", ".", "/",
       "0", "1", "2", "3", "4", "5", "6", "7", "8", "9", ":", ";", "<", "=", ">", "?",
       "@", "A", "B", "C", "D", "E", "F", "G", "H", "I", "J", "K", "L", "M", "N", "O",
       "P", "Q", "R", "S", "T", "U", "V", "W", "X", "Y", "Z", "[", "\\", "]", "^", "_",
       "a", "b", "c", "d", "e", "f", "g", "h", "i", "j", "k", "l", "m", "n", "o",
       "p", "q", "r", "s", "t", "u", "v", "w", "x", "y", "z", "{", "|", "}", "~">>

\* rank of a character in code-point order
Ord == [c \in {Ascii[i] : i \in 1..Len(Ascii)} |-> CHOOSE i \in 1..Len(Ascii) : Ascii[i] = c]

\* a < b for Python strings
StrLess(a, b) ==
    LET m == IF Len(a) < Len(b) THEN Len(a) ELSE Len(b)
        diff == {i \in 1..m : a[i] # b[i]}
    IN  IF diff = {} THEN Len(a) < Len(b)
        ELSE Ord[a[SetMin(diff)]] < Ord[b[SetMin(diff)]]

RECURSIVE InsertSorted(_, _)
InsertSorted(x, xs) ==
    IF xs = <<>> THEN <<x>>
    ELSE IF StrLess(x, Head(xs)) THEN <<x>> \o xs
    ELSE <<Head(xs)>> \o InsertSorted(x, Tail(xs))

\* sorted(file_list)
RECURSIVE sorted(_)
sorted(file_list) ==
    IF file_list = <<>> THEN <<>>
    ELSE InsertSorted(file_list[Len(file_list)],
                      sorted(SubSeq(file_list, 1, Len(file_list) - 1)))

\* path.replace('\\', '/')
fix_file_slashes(path) == Replace(path, "\\", "/")

\* the path separators os.path splits on
Seps(os) == IF os = "nt" THEN {"/", "\\"} ELSE {"/"}

\* os.path.basename(path)
basename(path, os) ==
    LET cut == {i \in 1..Len(path) : path[i] \in Seps(os)}
    IN  IF cut = {} THEN path ELSE SubSeq(path, SetMax(cut) + 1, Len(path))

\* os.sep
OsSep(os) == IF os = "nt" THEN "\\" ELSE "/"

\* os.path.join(a, b) for a relative b
path_join(a, b, os) ==
    IF a # <<>> /\ a[Len(a)] \in Seps(os) THEN a \o b ELSE a \o <<OsSep(os)>> \o b

\* os.getcwd()
Cwd(os) == IF os = "nt" THEN <<"C", ":", "\\", "w">> ELSE <<"/", "w">>

\* os.path.abspath(path) of a path without '.' or '..' segments
abspath(path, os) ==
    LET norm == IF os = "nt" THEN Replace(path, "/", "\\") ELSE path
        absolute == IF os = "nt"
                    THEN Len(norm) >= 2 /\ norm[2] = ":"
                    ELSE norm # <<>> /\ norm[1] = "/"
    IN  IF absolute THEN norm ELSE path_join(Cwd(os), norm, os)

\* the directories of the source tree, each with the entries os.walk finds
D_rtl == <<"r", "t", "l">>

D_rtl_s == <<"r", "t", "l", "/", "s">>

FsDirs == {D_rtl, D_rtl_s}

\* the file names in a directory
DirFiles(d) ==
    IF d = D_rtl THEN <<<<"x", ".", "v", "h", "d">>, <<"y", ".", "v">>, <<"n", ".", "t", "x", "t">>>>
    ELSE IF d = D_rtl_s THEN <<<<"w", ".", "x", "d", "c">>>>
    ELSE <<>>

\* the subdirectory names in a directory
DirSubdirs(d) == IF d = D_rtl THEN <<<<"s">>>> ELSE <<>>

F_rtl_x == <<"r", "t", "l", "/", "x", ".", "v", "h", "d">>

\* a file of rtl that the directory expansion leaves out
F_rtl_n == <<"r", "t", "l", "/", "n", ".", "t", "x", "t">>

F_ip_x == <<"i", "p", "/", "x", ".", "v", "h", "d">>

F_dep_z == <<"g", "i", "t", "h", "u", "b", "d", "e", "p", "s", "/", "z", ".", "v", "h", "d">>

\* a file outside the dependency tree whose name holds the marker
F_ip_gd == <<"i", "p", "/", "m", "y", "_", "g", "i", "t", "h", "u", "b", "d", "e", "p", "s", ".", "v", "h", "d">>

\* the files that exist besides those in the directories above
FsFiles ==
    {F_ip_x, F_dep_z, F_ip_gd}
    \cup UNION {{d \o <<"/">> \o DirFiles(d)[k] : k \in 1..Len(DirFiles(d))} : d \in FsDirs}

F_dep_m == <<"g", "i", "t", "h", "u", "b", "d", "e", "p", "s", "/", "m", ".", "v", "h", "d">>

L_comment == <<" ", " ", "#", " ", "d", "e", "p", "s">>

\* the lines a listfile may hold: two files with one basename, a directory,
\* a dependency that exists, one that does not, and a comment
ListLines == {F_rtl_x, F_ip_x, D_rtl, F_dep_z, F_dep_m, L_comment}

\* the most lines the listfiles hold together
MaxLines == 3

\* config.get('VivadoProjectSettings', 'VivadoProjectFilesLists').split()
VivadoProjectFilesLists == <<"rtl.lst", "deps.lst">>

----------------------------------------------------------------------------
(* The file-set assemblers *)

\* the extensions a directory expansion keeps
AcceptedExt ==
    {<<".", "v", "h", "d">>, <<".", "v">>, <<".", "s", "v">>, <<".", "x", "d", "c">>, <<".", "e", "d", "f">>, <<".", "d", "c", "p">>, <<".", "x", "c", "i">>}

\* file.endswith((...))
accepted(file) == \E e \in AcceptedExt : EndsWith(file, e)

\* the name os.walk looks a directory up by
DirKey(d, os) == IF os = "nt" THEN fix_file_slashes(d) ELSE d

\* os.path.isdir(line)
isdir(line, os) == DirKey(line, os) \in FsDirs

\* os.walk(top): the (root, files) pairs, top-down
RECURSIVE walk(_, _)
walk(top, os) ==
    LET subs == DirSubdirs(DirKey(top, os))
    IN  <<[root |-> top, files |-> DirFiles(DirKey(top, os))]>>
        \o Concat([k \in 1..Len(subs) |-> walk(path_join(top, subs[k], os), os)])

\* the accepted files of one walked directory, joined to its root
walked_files(entry, os) ==
    LET keep == SelectSeq(entry.files, accepted)
    IN  [k \in 1..Len(keep) |-> fix_file_slashes(path_join(entry.root, keep[k], os))]

\* what one line of a listfile adds to file_list
line_files(raw, os) ==
    LET line == Strip(raw)
    IN  IF line = <<>> \/ StartsWith(line, <<"#">>) THEN <<>>
        ELSE IF isdir(line, os)
        THEN LET w == walk(line, os)
             IN  Concat([k \in 1..Len(w) |-> walked_files(w[k], os)])
        ELSE <<fix_file_slashes(line)>>

\* a variant: only the first listfile is looked for
expand_first_listfile_only(lists_of_files, os) ==
    LET per_list(lf) == Concat([k \in 1..Len(lf.lines) |-> line_files(lf.lines[k], os)])
    IN  [missing |-> lists_of_files # <<>> /\ ~lists_of_files[1].exists,
         file_list |-> Concat([k \in 1..Len(lists_of_files) |-> per_list(lists_of_files[k])])]

\* the combined file_list of all listfiles, or the missing listfile that stops it
expand(lists_of_files, os) ==
    LET per_list(lf) == Concat([k \in 1..Len(lf.lines) |-> line_files(lf.lines[k], os)])
    IN  [missing |-> \E k \in 1..Len(lists_of_files) : ~lists_of_files[k].exists,
         file_list |-> Concat([k \in 1..Len(lists_of_files) |-> per_list(lists_of_files[k])])]

NoLog == [exists |-> FALSE, blocks |-> <<>>]

\* no duplicate check was made yet
NotChecked == [last |-> "none", before |-> "none"]

\* the blocks written to duplicate_files.log: file_dict in insertion order,
\* keeping the groups longer than `most`
duplicate_blocks(file_list, os, most) ==
    LET n == Len(file_list)
        names == [i \in 1..n |-> basename(file_list[i], os)]
        first(i) == \A j \in 1..(i - 1) : names[j] # names[i]
        keys == SelectSeq([i \in 1..n |-> i], first)
        same(k) == SelectSeq([i \in 1..n |-> i], LAMBDA i : names[i] = names[keys[k]])
        groups == [k \in 1..Len(keys) |->
                     [file_name |-> names[keys[k]],
                      paths |-> [m \in 1..Len(same(k)) |-> file_list[same(k)[m]]]]]
    IN  SelectSeq(groups, LAMBDA g : Len(g.paths) > most)

\* a variant that lets a pair of files share a name
find_and_log_duplicates_more_than_two(file_list, os) ==
    LET blocks == duplicate_blocks(file_list, os, 2)
    IN  [raised |-> blocks # <<>>,
         log |-> IF blocks = <<>> THEN NoLog ELSE [exists |-> TRUE, blocks |-> blocks]]

\* a variant: a log that exists is left alone when no duplicates are found
find_and_log_duplicates_keeps_log(file_list, os) ==
    LET blocks == duplicate_blocks(file_list, os, 1)
    IN  [raised |-> blocks # <<>>,
         log |-> IF blocks = <<>> THEN dup_log ELSE [exists |-> TRUE, blocks |-> blocks]]

\* find_and_log_duplicates(file_list): whether it raises ValueError, and the
\* log it leaves (any existing log is deleted first)
find_and_log_duplicates(file_list, os) ==
    LET blocks == duplicate_blocks(file_list, os, 1)
    IN  [raised |-> blocks # <<>>,
         log |-> IF blocks = <<>> THEN NoLog ELSE [exists |-> TRUE, blocks |-> blocks]]

Marker == <<"g", "i", "t", "h", "u", "b", "d", "e", "p", "s">>

LongPrefix == <<"\\", "\\", "?", "\\">>

GatheredDir == <<"o", "b", "j", "e", "c", "t", "s", "/", "g", "a", "t", "h", "e", "r", "e", "d", "d", "e", "p", "s">>

NoGathered == [exists |-> FALSE, files |-> {}]

\* shutil.copy2(file, target_path) into the folder: the copy replaces any file
\* of that name
copied(g, name, from) ==
    [exists |-> TRUE,
     files |-> {e \in g.files : e.name # name} \cup {[name |-> name, from |-> from]}]

\* copy_deps_files(file_list): the new list or IOError, and the folder afterwards
RECURSIVE copy_deps_files(_, _, _)
copy_deps_files(file_list, os, g) ==
    IF file_list = <<>>
    THEN [raised |-> FALSE, new_file_list |-> <<>>,
          gathered |-> [exists |-> TRUE, files |-> g.files]]
    ELSE LET prev == copy_deps_files(SubSeq(file_list, 1, Len(file_list) - 1), os, g)
             listed == file_list[Len(file_list)]
             target_folder == path_join(Cwd(os), GatheredDir, os)
             file == IF os = "nt" THEN LongPrefix \o abspath(listed, os) ELSE listed
             target_folder_long == IF os = "nt"
                                   THEN LongPrefix \o abspath(target_folder, os)
                                   ELSE target_folder
             target_path == path_join(target_folder_long, basename(file, os), os)
         IN  IF prev.raised THEN prev
             ELSE IF Contains(file, Marker)
             THEN IF listed \in FsFiles
                  THEN [raised |-> FALSE,
                        new_file_list |-> Append(prev.new_file_list, target_path),
                        gathered |-> copied(prev.gathered, basename(file, os), listed)]
                  ELSE [raised |-> TRUE, new_file_list |-> <<>>, gathered |-> prev.gathered]
             ELSE [raised |-> FALSE,
                   new_file_list |-> Append(prev.new_file_list, file),
                   gathered |-> prev.gathered]

NotAssembled == [status |-> "none", files |-> <<>>]

AsmRaised(e) == [status |-> e, files |-> <<>>]

AsmReturned(file_list) == [status |-> "ok", files |-> file_list]

TotalLines == Len(Concat([k \in 1..Len(listfiles) |-> listfiles[k].lines]))

\* a line is written to a listfile before the tools run
WriteListfileLine ==
    /\ asm_result = NotAssembled
    /\ common_result = NotAssembled
    /\ TotalLines < MaxLines
    /\ \E k \in 1..Len(listfiles), line \in ListLines :
          /\ listfiles[k].exists
          /\ listfiles' = [listfiles EXCEPT ![k].lines = Append(@, line)]
    /\ UNCHANGED <<os_name, dup_log, gathered, asm_result, common_result, dup_checked,
                   beside_asm>>

\* a variant: the dependency files are copied before the duplicate check
assemble_copies_first(e, os, g, log, checked) ==
    LET d == find_and_log_duplicates(e.file_list, os)
        c == copy_deps_files(e.file_list, os, g)
    IN  IF e.missing THEN [result |-> AsmRaised("FileNotFoundError"), log |-> log, gathered |-> g, checked |-> checked]
        ELSE IF c.raised THEN [result |-> AsmRaised("IOError"), log |-> log, gathered |-> c.gathered,
              checked |-> checked]
        ELSE IF d.raised THEN [result |-> AsmRaised("ValueError"), log |-> d.log, gathered |-> c.gathered,
              checked |-> [last |-> "collisions", before |-> checked.last]]
        ELSE [result |-> AsmReturned(sorted(c.new_file_list)),
              log |-> d.log, gathered |-> c.gathered, checked |-> [last |-> "clean", before |-> checked.last]]

\* the steps of get_vivado_project_files once the listfiles are read into e:
\* the duplicate check, the relocation and the sort; with the log, the folder
\* and the finding of the duplicate check as they are afterwards
assemble(e, os, g, log, checked) ==
    LET d == find_and_log_duplicates(e.file_list, os)
        c == copy_deps_files(e.file_list, os, g)
    IN  IF e.missing
        THEN [result |-> AsmRaised("FileNotFoundError"),
              log |-> log, gathered |-> g, checked |-> checked]
        ELSE IF d.raised
        THEN [result |-> AsmRaised("ValueError"),
              log |-> d.log, gathered |-> g,
              checked |-> [last |-> "collisions", before |-> checked.last]]
        ELSE [result |-> IF c.raised THEN AsmRaised("IOError")
                         ELSE AsmReturned(sorted(c.new_file_list)),
              log |-> d.log, gathered |-> c.gathered,
              checked |-> [last |-> "clean", before |-> checked.last]]

\* createvivadoproject.get_vivado_project_files(config)
get_vivado_project_files ==
    \E a \in {assemble(expand(listfiles, os_name), os_name, gathered, dup_log, dup_checked)} :
        /\ asm_result' = a.result
        /\ dup_log' = a.log
        /\ gathered' = a.gathered
        /\ dup_checked' = a.checked
        /\ UNCHANGED <<os_name, listfiles, common_result, beside_asm>>

\* common.get_vivado_project_files(lists_of_files)
common_get_vivado_project_files ==
    LET e == expand(listfiles, os_name)
    IN  /\ common_result' = IF e.missing THEN AsmRaised("FileNotFoundError")
                            ELSE AsmReturned(sorted(e.file_list))
        /\ UNCHANGED <<os_name, listfiles, dup_log, gathered, asm_result, dup_checked,
                       beside_asm>>

AsmNext ==
    \/ WriteListfileLine
    \/ get_vivado_project_files
    \/ common_get_vivado_project_files

----------------------------------------------------------------------------
(* The signal table (CSV) and the BoardIO / clock XML generated from it *)

\* an element tree: its elements in creation order, each with the index of
\* its parent (0 for the root); the children of an element are in index order
Node(tag, parent, attrib, text) ==
    [tag |-> tag, parent |-> parent, attrib |-> attrib, text |-> text]

NoAttrib == [k \in {} |-> <<>>]

\* ET.SubElement(parent, tag, attrib), with the text assigned to it
SubElement(tree, parent, tag, attrib, text) == Append(tree, Node(tag, parent, attrib, text))

\* io_resource.set(key, value)
SetAttrib(tree, i, key, value) ==
    LET old == tree[i].attrib
    IN  [tree EXCEPT ![i].attrib =
            [k \in DOMAIN old \cup {key} |-> IF k = key THEN value ELSE old[k]]]

BOARDIO_WRAPPER_NAME == <<"B", "o", "a", "r", "d", "I", "O">>

DOCUMENT_ROOT_PREFIX == <<"#", "{", "{", "d", "o", "c", "u", "m", "e", "n", "t", "-", "r", "o", "o", "t", "}", "}", "/", "S", "t", "o", "c", "k", "/">>

HIERARCHY_TEXT == <<"A", "p", "p", "l", "e", "t", "o", "n", "W", "i", "n", "d", "o", "w">>

DEFAULT_CLOCK_FREQ == <<"2", "5", "0", "M">>

DEFAULT_ACCURACY_PPM == <<"1", "0", "0">>

DEFAULT_JITTER_PS == <<"2", "5", "0">>

\* create_boardio_structure(): boardio_top is element 1, boardio_resources element 2
create_boardio_structure ==
    <<Node("boardio", 0, NoAttrib, <<>>),
      Node("ResourceList", 1, [k \in {"name"} |-> BOARDIO_WRAPPER_NAME], <<>>)>>

\* create_clocklist_structure(): clock_list_top is element 1
create_clocklist_structure ==
    <<Node("ClockList", 0, NoAttrib, <<>>),
      Node("HierarchyForDerivedClockPeriodConstraints", 1, NoAttrib, HIERARCHY_TEXT)>>

\* a variant: a ResourceList is made for every call, none is looked up
create_resource_list(tree, parent, name) ==
    [tree |-> SubElement(tree, parent, "ResourceList", [k \in {"name"} |-> name], <<>>),
     node |-> Len(tree) + 1]

\* get_or_create_resource_list(parent, name): the tree afterwards and the element
get_or_create_resource_list(tree, parent, name) ==
    LET found == {i \in 1..Len(tree) :
                    /\ tree[i].parent = parent
                    /\ tree[i].tag = "ResourceList"
                    /\ "name" \in DOMAIN tree[i].attrib
                    /\ tree[i].attrib["name"] = name}
    IN  IF found # {} THEN [tree |-> tree, node |-> SetMin(found)]
        ELSE [tree |-> SubElement(tree, parent, "ResourceList",
                                  [k \in {"name"} |-> name], <<>>),
              node |-> Len(tree) + 1]

\* the loop over parts[:-1]: the tree afterwards and current_parent
RECURSIVE resource_hierarchy(_, _, _)
resource_hierarchy(tree, current_parent, parts) ==
    IF Len(parts) <= 1 THEN [tree |-> tree, node |-> current_parent]
    ELSE LET r == get_or_create_resource_list(tree, current_parent, Head(parts))
         IN  resource_hierarchy(r.tree, r.node, Tail(parts))

\* the keys of DATA_TYPE_PROTOTYPES
PrototypeNames == {S_FXP} \cup SimpleTypes

\* DATA_TYPE_PROTOTYPES[data_type_name]
DATA_TYPE_PROTOTYPES(data_type_name) ==
    DOCUMENT_ROOT_PREFIX
    \o (IF data_type_name = S_FXP THEN S_FXP
        ELSE IF data_type_name = S_Boolean THEN <<"b", "o", "o", "l">>
        ELSE LowerStr(data_type_name))
    \o <<"D", "i", "g", "i", "t", "a", "l", "{", "d", "i", "r", "e", "c", "t", "i", "o", "n", "}">>

\* template.format(direction=value): doubled braces are literal braces
RECURSIVE format(_, _)
format(template, value) ==
    IF template = <<>> THEN <<>>
    ELSE IF StartsWith(template, <<"{", "{">>)
    THEN <<"{">> \o format(SubSeq(template, 3, Len(template)), value)
    ELSE IF StartsWith(template, <<"}", "}">>)
    THEN <<"}">> \o format(SubSeq(template, 3, Len(template)), value)
    ELSE IF StartsWith(template, <<"{", "d", "i", "r", "e", "c", "t", "i", "o", "n", "}">>)
    THEN value \o format(SubSeq(template, 12, Len(template)), value)
    ELSE <<Head(template)>> \o format(Tail(template), value)

\* lv_name[10:].replace("\\", ".")
original_name(lv_name) == Replace(SubSeq(lv_name, 11, Len(lv_name)), "\\", ".")

\* {"output": "ToCLIP", "input": "FromCLIP"}.get(direction, direction)
clip_direction(direction) ==
    IF direction = <<"o", "u", "t", "p", "u", "t">> THEN <<"T", "o", "C", "L", "I", "P">>
    ELSE IF direction = <<"i", "n", "p", "u", "t">> THEN <<"F", "r", "o", "m", "C", "L", "I", "P">>
    ELSE direction

\* a variant: the two prototype suffixes are exchanged
io_direction_exchanged(clip_dir) ==
    IF clip_dir = <<"T", "o", "C", "L", "I", "P">> THEN <<"I", "n", "p", "u", "t">>
    ELSE IF clip_dir = <<"F", "r", "o", "m", "C", "L", "I", "P">> THEN <<"O", "u", "t", "p", "u", "t", "W", "i", "t", "h", "o", "u", "t", "R", "e", "a", "d", "b", "a", "c", "k">>
    ELSE <<"U", "n", "k", "n", "o", "w", "n">>

\* {"ToCLIP": "OutputWithoutReadback", "FromCLIP": "Input"}.get(clip_direction, "Unknown")
io_direction(clip_dir) ==
    IF clip_dir = <<"T", "o", "C", "L", "I", "P">> THEN <<"O", "u", "t", "p", "u", "t", "W", "i", "t", "h", "o", "u", "t", "R", "e", "a", "d", "b", "a", "c", "k">>
    ELSE IF clip_dir = <<"F", "r", "o", "m", "C", "L", "I", "P">> THEN <<"I", "n", "p", "u", "t">>
    ELSE <<"U", "n", "k", "n", "o", "w", "n">>

\* is_clock of a row
is_clock(row) ==
    LowerStr(row.SignalType) = <<"c", "l", "o", "c", "k">> /\ clip_direction(row.Direction) = <<"F", "r", "o", "m", "C", "L", "I", "P">>

\* the clock branch: a Clock element with its properties
clock_row(tree, row) ==
    LET t1 == SubElement(tree, 1, "Clock", [k \in {"name"} |-> original_name(row.LVName)], <<>>)
        clock == Len(t1)
        t2 == SubElement(t1, clock, "FreqInHertz", NoAttrib, <<>>)
        t3 == SubElement(t2, Len(t2), "DefaultValue", NoAttrib, DEFAULT_CLOCK_FREQ)
        t4 == SubElement(t3, clock, "AccuracyInPPM", NoAttrib, <<>>)
        t5 == SubElement(t4, Len(t4), "DefaultValue", NoAttrib, DEFAULT_ACCURACY_PPM)
        t6 == SubElement(t5, clock, "JitterInPicoSeconds", NoAttrib, <<>>)
        t7 == SubElement(t6, Len(t6), "DefaultValue", NoAttrib, DEFAULT_JITTER_PS)
    IN  SubElement(t7, clock, "GeneratePeriodConstraints", NoAttrib, <<"f", "a", "l", "s", "e">>)

\* the FXP attributes: set one by one until parts runs out
fxp_attributes(tree, io_resource, data_type) ==
    LET parts == Split(Split(Split(data_type, "(")[2], ")")[1], ",")
        t1 == SetAttrib(tree, io_resource, "wordLength", parts[1])
    IN  IF Len(parts) < 2 THEN t1
        ELSE SetAttrib(SetAttrib(t1, io_resource, "integerWordLength", parts[2]),
                       io_resource, "unsigned",
                       IF Contains(data_type, S_Unsigned) THEN <<"t", "r", "u", "e">> ELSE <<"f", "a", "l", "s", "e">>)

\* the IO branch: the resource hierarchy and the IOResource of the row
io_row(tree, row) ==
    LET parts == Split(original_name(row.LVName), ".")
        h == resource_hierarchy(tree, 2, parts)
        t1 == SubElement(h.tree, h.node, "IOResource", [k \in {"name"} |-> row.LVName], <<>>)
        io_resource == Len(t1)
        t2 == SubElement(t1, io_resource, "VHDLName", NoAttrib, row.HDLName)
        t3 == IF row.RequiredClockDomain # <<>>
              THEN SubElement(t2, io_resource, "RequiredClockDomain", NoAttrib,
                              row.RequiredClockDomain)
              ELSE t2
        t4 == IF row.UseInLabVIEWSingleCycleTimedLoop # <<>>
              THEN SubElement(t3, io_resource, "UseInSingleCycleTimedLoop", NoAttrib,
                              row.UseInLabVIEWSingleCycleTimedLoop)
              ELSE t3
        data_type == row.DataType
        data_type_name == IF Contains(data_type, <<"(">>) THEN Split(data_type, "(")[1]
                          ELSE data_type
    IN  IF data_type_name \in PrototypeNames
        THEN LET t5 == SetAttrib(t4, io_resource, "prototype",
                                 format(DATA_TYPE_PROTOTYPES(data_type_name),
                                        io_direction(clip_direction(row.Direction))))
             IN  IF data_type_name = S_FXP /\ Contains(data_type, <<"(">>)
                 THEN fxp_attributes(t5, io_resource, data_type)
                 ELSE t5
        ELSE SetAttrib(t4, io_resource, "prototype",
                       DOCUMENT_ROOT_PREFIX \o <<"u", "n", "k", "n", "o", "w", "n", "S", "i", "g", "n", "a", "l">>)

\* the loop over the rows: the two trees afterwards
RECURSIVE xml_from_rows(_)
xml_from_rows(rows) ==
    IF rows = <<>>
    THEN [boardio |-> create_boardio_structure, clocklist |-> create_clocklist_structure]
    ELSE LET prev == xml_from_rows(SubSeq(rows, 1, Len(rows) - 1))
             row == rows[Len(rows)]
         IN  IF is_clock(row)
             THEN [prev EXCEPT !.clocklist = clock_row(prev.clocklist, row)]
             ELSE [prev EXCEPT !.boardio = io_row(prev.boardio, row)]

\* the signals list of generate_vhdl_from_csv, or the exception of the mapper
RECURSIVE custom_signals(_)
custom_signals(rows) ==
    IF rows = <<>> THEN [exc |-> "none", signals |-> <<>>]
    ELSE LET prev == custom_signals(SubSeq(rows, 1, Len(rows) - 1))
             row == rows[Len(rows)]
             type == map_datatype_to_vhdl(row.DataType)
         IN  IF prev.exc # "none" THEN prev
             ELSE IF LowerStr(row.SignalType) = <<"c", "l", "o", "c", "k">> THEN prev
             ELSE IF type.exc # "none" THEN [exc |-> type.exc, signals |-> <<>>]
             ELSE [exc |-> "none",
                   signals |-> Append(prev.signals,
                       [name |-> row.HDLName,
                        direction |-> IF row.Direction = <<"i", "n", "p", "u", "t">> THEN "in" ELSE "out",
                        type |-> type.vhdl,
                        lv_name |-> row.LVName])]

----------------------------------------------------------------------------
(* The signal tables the generators are run on *)

CsvRow(lv, hdl, dir, st, dt, scl, rcd) ==
    [LVName |-> lv, HDLName |-> hdl, Direction |-> dir, SignalType |-> st,
     DataType |-> dt, UseInLabVIEWSingleCycleTimedLoop |-> scl,
     RequiredClockDomain |-> rcd]

\* the DataType cells of the rows
CsvTypes ==
    SimpleTypes
    \cup {S_FXP \o <<"(", "1", "2", ",", "1", ",", "U", "n", "s", "i", "g", "n", "e", "d", ")">>, S_FXP \o <<"(", "8", ",", "0", ",", "S", "i", "g", "n", "e", "d", ")">>, S_FXP, S_Unknown,
          S_Array \o <<"<", "U", "8", ">", "[", "2", "]">>}

\* a row: a signal directly under the socket with a clock domain, or one in
\* a group that is used in the single-cycle timed loop
CsvRows ==
    {CsvRow(<<"I", "O", " ", "S", "o", "c", "k", "e", "t", "\\", "C", "h", "0">>, <<"c", "h", "0", "_", "s", "i", "g">>, dir, st, dt, <<>>, <<"C", "l", "k", "A">>) :
        dir \in {<<"i", "n", "p", "u", "t">>, <<"o", "u", "t", "p", "u", "t">>, <<"i", "n", "o", "u", "t">>}, st \in {<<"D", "a", "t", "a">>, <<"C", "l", "o", "c", "k">>}, dt \in CsvTypes}
    \cup
    {CsvRow(<<"I", "O", " ", "S", "o", "c", "k", "e", "t", "\\", "G", "r", "p", "\\", "C", "h", "1">>, <<"c", "h", "1", "_", "s", "i", "g">>, dir, st, dt, <<"T", "R", "U", "E">>, <<>>) :
        dir \in {<<"i", "n", "p", "u", "t">>, <<"o", "u", "t", "p", "u", "t">>, <<"i", "n", "o", "u", "t">>}, st \in {<<"D", "a", "t", "a">>, <<"C", "l", "o", "c", "k">>}, dt \in CsvTypes}

\* the signal tables: one data row under the header
CsvTables == {<<row>> : row \in CsvRows}

MaxRows == 3

\* the logical names of a table with groups: signals under the socket, in a
\* group, in a group of a group (written with a dot), in a group that has
\* the name of a subgroup, and a signal that has the name of a group
HierarchyNames ==
    {<<"I", "O", " ", "S", "o", "c", "k", "e", "t", "\\", "C", "h", "0">>, <<"I", "O", " ", "S", "o", "c", "k", "e", "t", "\\", "G", "r", "p", "\\", "C", "h", "1">>, <<"I", "O", " ", "S", "o", "c", "k", "e", "t", "\\", "G", "r", "p", "\\", "C", "h", "2">>, <<"I", "O", " ", "S", "o", "c", "k", "e", "t", "\\", "G", "r", "p", ".", "S", "u", "b", "\\", "C", "h", "3">>,
     <<"I", "O", " ", "S", "o", "c", "k", "e", "t", "\\", "S", "u", "b", "\\", "C", "h", "4">>, <<"I", "O", " ", "S", "o", "c", "k", "e", "t", "\\", "G", "r", "p">>}

\* the rows of such a table: data inputs, and a clock input in the group
HierarchyRows ==
    {CsvRow(lv, <<"s", "i", "g">>, <<"i", "n", "p", "u", "t">>, <<"D", "a", "t", "a">>, <<"U", "8">>, <<>>, <<>>) : lv \in HierarchyNames}
    \cup {CsvRow(<<"I", "O", " ", "S", "o", "c", "k", "e", "t", "\\", "G", "r", "p", "\\", "C", "l", "k">>, <<"c", "l", "k">>, <<"i", "n", "p", "u", "t">>, <<"C", "l", "o", "c", "k">>, <<"B", "o", "o", "l", "e", "a", "n">>, <<>>, <<>>)}

\* the signal tables of up to max rows, in every order
HierarchyTables(max) == SeqsUpTo(HierarchyRows, max) \ {<<>>}

XmlNotRun == [status |-> "none", boardio |-> <<>>, clocklist |-> <<>>]

VhdlNotRun == [status |-> "none", signals |-> <<>>]

\* genlvtargetsupport.generate_xml_from_csv(csv_path, ...)
GenerateXmlFromCsv ==
    /\ xml_out = XmlNotRun
    /\ LET x == xml_from_rows(csv_table)
       IN  xml_out' = [status |-> "ok", boardio |-> x.boardio, clocklist |-> x.clocklist]
    /\ UNCHANGED <<csv_table, vhdl_out, beside_csv>>

\* genlvtargetsupport.generate_vhdl_from_csv(csv_path, ...) on the whole table
GenerateVhdlFromCsv ==
    /\ vhdl_out = VhdlNotRun
    /\ LET c == custom_signals(csv_table)
       IN  vhdl_out' = IF c.exc = "none" THEN [status |-> "ok", signals |-> c.signals]
                       ELSE [status |-> "SystemExit", signals |-> <<>>]
    /\ UNCHANGED <<csv_table, xml_out, beside_csv>>

CsvNext ==
    \/ GenerateXmlFromCsv
    \/ GenerateVhdlFromCsv

----------------------------------------------------------------------------
(* The legacy assembler (lvfpgahdltools/vivadoprojecttools.py) and project
   creation (tools/createvivadoproject.py) *)

\* file.endswith('.vhd') or file.endswith('.xdc') or file.endswith('edf')
legacy_accepted(file) ==
    EndsWith(file, <<".", "v", "h", "d">>) \/ EndsWith(file, <<".", "x", "d", "c">>) \/ EndsWith(file, <<"e", "d", "f">>)

\* vivadoprojecttools.list_all_files(folder_path)
list_all_files(folder_path, os) ==
    LET w == walk(folder_path, os)
        kept(entry) == SelectSeq(entry.files, legacy_accepted)
    IN  Concat([k \in 1..Len(w) |->
                   [m \in 1..Len(kept(w[k])) |->
                       fix_file_slashes(path_join(w[k].root, kept(w[k])[m], os))]])

\* what one line of a listfile adds to the legacy file_list: the line itself
legacy_line_files(raw) ==
    LET line == Strip(raw)
    IN  IF line = <<>> \/ StartsWith(line, <<"#">>) THEN <<>>
        ELSE <<fix_file_slashes(line)>>

\* the combined file_list of the legacy assembler
legacy_expand(lists_of_files) ==
    LET per_list(lf) == Concat([k \in 1..Len(lf.lines) |-> legacy_line_files(lf.lines[k])])
    IN  [missing |-> \E k \in 1..Len(lists_of_files) : ~lists_of_files[k].exists,
         file_list |-> Concat([k \in 1..Len(lists_of_files) |-> per_list(lists_of_files[k])])]

\* vivadoprojecttools.get_vivado_project_files(config)
legacy_get_vivado_project_files ==
    \E a \in {assemble(legacy_expand(listfiles), os_name, gathered, dup_log, dup_checked)} :
        /\ legacy_result' = a.result
        /\ dup_log' = a.log
        /\ gathered' = a.gathered
        /\ dup_checked' = a.checked
        /\ UNCHANGED <<os_name, listfiles, asm_result, common_result,
                       project_file, xilinx, project_run, beside_asm_and_proj>>

NoProjectRun ==
    [overwrite |-> FALSE, updatefiles |-> FALSE, existed |-> FALSE, mode |-> "none",
     status |-> "none", tcl |-> FALSE, target_support |-> FALSE, vivado |-> "none"]

\* the directory the scripts are started in, and the one create_project
\* changes into
ProjectRoot == "."

VivadoProjectDir == "VivadoProject"

\* os.path.exists and open of the configured listfile paths, which are
\* relative: from another working directory none of them is found
visible(lists_of_files, dir) ==
    IF dir = ProjectRoot THEN lists_of_files
    ELSE [k \in 1..Len(lists_of_files) |-> [exists |-> FALSE, lines |-> <<>>]]

NoProjectCall ==
    [mode |-> "none", status |-> "none", cwd_before |-> ProjectRoot, cwd_after |-> ProjectRoot]

\* a variant: the TCL scripts are written whatever the assembly gave
create_project_scripts_first(mode, target_support_ok, vivado_creates) ==
    LET a == assemble(expand(visible(listfiles, cwd), os_name), os_name, gathered, dup_log, dup_checked)
    IN  IF a.result.status # "ok" \/ ~target_support_ok
        THEN [asm |-> a, status |-> IF a.result.status # "ok" THEN a.result.status ELSE "SystemExit",
              tcl |-> TRUE, target_support |-> a.result.status = "ok", vivado |-> "none",
              project_file |-> project_file, cwd |-> cwd]
        ELSE [asm |-> a, status |-> "ok", tcl |-> TRUE, target_support |-> TRUE,
              vivado |-> IF xilinx THEN mode ELSE "none",
              project_file |-> IF xilinx /\ mode = "new" /\ vivado_creates THEN TRUE ELSE project_file,
              cwd |-> IF xilinx THEN cwd ELSE VivadoProjectDir]

\* create_project(mode, config): the assembly it makes, whether it wrote the
\* TCL scripts, whether it ran gen_lv_target_support, the Vivado command it
\* started, the exception that ended it, and the working directory it
\* leaves: it changes into VivadoProject before it looks for XILINX and
\* changes back after the Vivado run.  gen_lv_target_support may exit; a NEW
\* batch run may or may not leave a project file.
create_project(mode, target_support_ok, vivado_creates) ==
    LET a == assemble(expand(visible(listfiles, cwd), os_name), os_name, gathered, dup_log, dup_checked)
    IN  IF a.result.status # "ok"
        THEN [asm |-> a, status |-> a.result.status, tcl |-> FALSE,
              target_support |-> FALSE, vivado |-> "none", project_file |-> project_file,
              cwd |-> cwd]
        ELSE IF ~target_support_ok
        THEN [asm |-> a, status |-> "SystemExit", tcl |-> TRUE,
              target_support |-> TRUE, vivado |-> "none", project_file |-> project_file,
              cwd |-> cwd]
        ELSE IF ~xilinx
        THEN [asm |-> a, status |-> "ok", tcl |-> TRUE,
              target_support |-> TRUE, vivado |-> "none", project_file |-> project_file,
              cwd |-> VivadoProjectDir]
        ELSE [asm |-> a, status |-> "ok", tcl |-> TRUE,
              target_support |-> TRUE, vivado |-> mode,
              project_file |-> IF mode = "new" /\ vivado_creates THEN TRUE ELSE project_file,
              cwd |-> cwd]

\* a variant: --updatefiles without a project creates it
dispatch_update_creates(overwrite, updatefiles, exists) ==
    IF overwrite /\ updatefiles THEN "ValueError"
    ELSE IF updatefiles THEN IF exists THEN "update" ELSE "new"
    ELSE IF overwrite \/ ~exists THEN "new"
    ELSE "FileExistsError"

\* create_project_handler: the mode it calls create_project with, or the
\* exception it raises, for its flags and os.path.exists(project_file_path)
dispatch(overwrite, updatefiles, exists) ==
    IF ~overwrite /\ ~updatefiles
    THEN IF exists THEN "FileExistsError" ELSE "new"
    ELSE IF updatefiles /\ ~overwrite
    THEN IF ~exists THEN "FileNotFoundError" ELSE "update"
    ELSE IF overwrite /\ ~updatefiles
    THEN "new"
    ELSE "ValueError"

\* create_project_handler(config, overwrite, updatefiles), called once by
\* main in a run of the script: each run starts in the project root
create_project_handler ==
    \E overwrite, updatefiles, target_support_ok, vivado_creates \in BOOLEAN :
        LET raise(e) ==
                /\ project_run' = [overwrite |-> overwrite, updatefiles |-> updatefiles,
                                   existed |-> project_file, mode |-> "none", status |-> e,
                                   tcl |-> FALSE, target_support |-> FALSE, vivado |-> "none"]
                /\ UNCHANGED <<asm_result, dup_log, gathered, dup_checked, project_file>>
            create(mode) ==
                \E p \in {create_project(mode, target_support_ok, vivado_creates)} :
                    /\ project_run' = [overwrite |-> overwrite, updatefiles |-> updatefiles,
                                       existed |-> project_file, mode |-> mode,
                                       status |-> p.status,
                                       tcl |-> p.tcl, target_support |-> p.target_support,
                                       vivado |-> p.vivado]
                    /\ asm_result' = p.asm.result
                    /\ dup_log' = p.asm.log
                    /\ gathered' = p.asm.gathered
                    /\ dup_checked' = p.asm.checked
                    /\ project_file' = p.project_file
        IN  /\ \E d \in {dispatch(overwrite, updatefiles, project_file)} :
                  IF d \in {"new", "update"} THEN create(d) ELSE raise(d)
            /\ UNCHANGED <<os_name, listfiles, common_result, legacy_result, xilinx,
                           beside_asm_and_proj>>

\* create_project(mode, config) called by a program that goes on running:
\* the working directory the call leaves is the one the next call starts in
create_project_call ==
    \E mode \in {"new", "update"}, target_support_ok, vivado_creates \in BOOLEAN :
        \E p \in {create_project(mode, target_support_ok, vivado_creates)} :
            /\ project_call' = [mode |-> mode, status |-> p.status,
                                cwd_before |-> cwd, cwd_after |-> p.cwd]
            /\ cwd' = p.cwd
            /\ asm_result' = p.asm.result
            /\ dup_log' = p.asm.log
            /\ gathered' = p.asm.gathered
            /\ dup_checked' = p.asm.checked
            /\ project_file' = p.project_file
            /\ UNCHANGED <<os_name, listfiles, common_result, legacy_result, xilinx,
                           project_run, beside_process>>

ProcessNext == create_project_call

\* the lines the listfile of a run may hold: a directory, a file of it that
\* the expansion leaves out, files with one basename, dependencies that exist
\* or not, and a file whose name holds the marker
RunLines == {D_rtl, F_rtl_n, F_rtl_x, F_ip_x, F_dep_z, F_dep_m, F_ip_gd}

\* the most lines the first listfile of a run holds
MaxRunLines == 2

RunListfiles ==
    {<<[exists |-> TRUE, lines |-> ls], [exists |-> TRUE, lines |-> <<>>]>> :
        ls \in SeqsUpTo(RunLines, MaxRunLines)}

\* the listfiles of a project: clean, with two files of one basename, with a
\* dependency that exists, with one that does not, and with the second
\* listfile missing
ProjectListfiles ==
    {<<[exists |-> TRUE, lines |-> ls], [exists |-> TRUE, lines |-> <<>>]>> :
        ls \in {<<F_rtl_x>>, <<F_rtl_x, F_ip_x>>, <<F_rtl_x, F_dep_z>>, <<F_dep_z, F_dep_m>>}}
    \cup {<<[exists |-> TRUE, lines |-> <<F_rtl_x>>], [exists |-> FALSE, lines |-> <<>>]>>}

\* the listfile is rewritten between runs; what the earlier calls returned is gone
RewriteListfile ==
    /\ \/ asm_result # NotAssembled
       \/ legacy_result # NotAssembled
       \/ project_run # NoProjectRun
    /\ listfiles' \in ProjectListfiles
    /\ asm_result' = NotAssembled
    /\ legacy_result' = NotAssembled
    /\ project_run' = NoProjectRun
    /\ UNCHANGED <<os_name, dup_log, gathered, dup_checked, common_result, project_file,
                   xilinx, beside_asm_and_proj>>

\* the three assemblers on one set of listfiles
RunsNext ==
    \/ get_vivado_project_files
    \/ common_get_vivado_project_files
    \/ legacy_get_vivado_project_files

\* project creation and assembler runs, the listfile rewritten in between
ProjectNext ==
    \/ RewriteListfile
    \/ create_project_handler
    \/ get_vivado_project_files
    \/ legacy_get_vivado_project_files

----------------------------------------------------------------------------
(* The case-insensitive tree query helpers and the CLIP descriptor reader
   (tools/migrateclip.py) *)

\* An element tree is the sequence of its elements in document order; each
\* holds its tag, the index of its parent (0 for the root), its attributes
\* in order and its text.  Element 0 stands for None.
XNode(tag, parent, attrib, text) ==
    [tag |-> tag, parent |-> parent, attrib |-> attrib, text |-> text]

\* for child in element
XChildren(t, element) == SelectSeq([i \in 1..Len(t) |-> i], LAMBDA i : t[i].parent = element)

RECURSIVE XWithin(_, _, _)
XWithin(t, element, i) ==
    IF i = element THEN TRUE
    ELSE IF i = 0 THEN FALSE
    ELSE XWithin(t, element, t[i].parent)

\* element.iter(): the element and its descendants in document order
XIter(t, element) == SelectSeq([i \in 1..Len(t) |-> i], LAMBDA i : XWithin(t, element, i))

\* s.replace(p, '') for a pattern p of any length
RECURSIVE Remove(_, _)
Remove(s, p) ==
    LET i == Find(s, p, 1)
    IN  IF i = 0 THEN s
        ELSE SubSeq(s, 1, i - 1) \o Remove(SubSeq(s, i + Len(p), Len(s)), p)

\* s.split(c, 1)
SplitOnce(s, c) ==
    LET i == Find(s, <<c>>, 1)
    IN  IF i = 0 THEN <<s>> ELSE <<SubSeq(s, 1, i - 1), SubSeq(s, i + 1, Len(s))>>

Found(node) == [exc |-> "none", node |-> node]

FindRaised(e) == [exc |-> e, node |-> 0]

FirstOr(nodes) == IF nodes = <<>> THEN 0 ELSE nodes[1]

\* elem.tag.lower() == tag_name.lower()
TagIs(t, i, tag_name) == LowerStr(t[i].tag) = LowerStr(tag_name)

\* a variant: a lookup that finds nothing raises
find_or_raise(t, element, xpath) ==
    LET hits == SelectSeq(XIter(t, element),
                          LAMBDA i : TagIs(t, i, Remove(SplitOnce(xpath, "[")[1], <<".", "/", "/">>)))
    IN  IF element = 0 \/ hits = <<>> THEN FindRaised("AttributeError") ELSE Found(hits[1])

\* find_case_insensitive(element, xpath)
find_case_insensitive(t, element, xpath) ==
    IF element = 0 THEN Found(0)
    ELSE IF ~StartsWith(xpath, <<".", "/", "/">>) /\ ~StartsWith(xpath, <<"@">>)
    THEN Found(FirstOr(SelectSeq(XChildren(t, element), LAMBDA i : TagIs(t, i, xpath))))
    ELSE IF StartsWith(xpath, <<".", "/", "/">>) /\ Contains(xpath, <<"@">>)
    THEN LET halves == SplitOnce(xpath, "[")
             tag_name == Remove(halves[1], <<".", "/", "/">>)
             condition == Split(Remove(Remove(halves[2], <<"]">>), <<"@">>), "=")
             attr_name == condition[1]
             attr_value == StripChars(condition[2], {"'", "\""})
             has(i) == \E k \in 1..Len(t[i].attrib) :
                          /\ LowerStr(t[i].attrib[k].name) = LowerStr(attr_name)
                          /\ LowerStr(t[i].attrib[k].value) = LowerStr(attr_value)
         IN  IF Len(halves) # 2 \/ Len(condition) # 2 THEN FindRaised("ValueError")
             ELSE Found(FirstOr(SelectSeq(XIter(t, element),
                                          LAMBDA i : TagIs(t, i, tag_name) /\ has(i))))
    ELSE IF StartsWith(xpath, <<".", "/", "/">>)
    THEN Found(FirstOr(SelectSeq(XIter(t, element),
                                 LAMBDA i : TagIs(t, i, Remove(xpath, <<".", "/", "/">>)))))
    ELSE FindRaised("KeyError")

FoundAll(nodes) == [exc |-> "none", nodes |-> nodes]

\* findall_case_insensitive(element, xpath); the path language of the
\* standard findall is followed for a plain tag name: the children with
\* exactly this tag
findall_case_insensitive(t, element, xpath) ==
    IF element = 0 THEN FoundAll(<<>>)
    ELSE IF StartsWith(xpath, <<".", "/", "/">>)
    THEN LET path_parts == Split(Remove(xpath, <<".", "/", "/">>), "/")
             parents == SelectSeq(XIter(t, element), LAMBDA p : TagIs(t, p, path_parts[1]))
             under(p) == SelectSeq(XChildren(t, p), LAMBDA c : TagIs(t, c, path_parts[2]))
         IN  IF Len(path_parts) = 1 THEN FoundAll(parents)
             ELSE FoundAll(Concat([k \in 1..Len(parents) |-> under(parents[k])]))
    ELSE IF StartsWith(xpath, <<"@">>) THEN [exc |-> "KeyError", nodes |-> <<>>]
    ELSE FoundAll(SelectSeq(XChildren(t, element), LAMBDA c : t[c].tag = xpath))

\* get_attribute_case_insensitive(element, attr_name, default)
get_attribute_case_insensitive(t, element, attr_name, default) ==
    IF element = 0 THEN default
    ELSE LET hits == SelectSeq(t[element].attrib,
                               LAMBDA a : LowerStr(a.name) = LowerStr(attr_name))
         IN  IF hits = <<>> THEN default ELSE hits[1].value

\* get_element_text(element, xpath, default), for the plain tag names it is
\* called with
get_element_text_in(t, element, xpath, default) ==
    LET child == IF element # 0 THEN find_case_insensitive(t, element, xpath).node ELSE 0
    IN  IF child # 0 /\ t[child].text # <<>> THEN t[child].text ELSE default

\* simple_types, in the order extract_data_type tries them
simple_types ==
    <<S_Boolean, SimpleName("U", 8), SimpleName("U", 16), SimpleName("U", 32),
      SimpleName("U", 64), SimpleName("I", 8), SimpleName("I", 16), SimpleName("I", 32),
      SimpleName("I", 64)>>

\* extract_data_type(element) on an element of a tree
extract_data_type_in(t, element) ==
    LET has(e, name) == find_case_insensitive(t, e, name).node # 0
        simple == SelectSeq(simple_types, LAMBDA n : has(element, n))
        fxp == find_case_insensitive(t, element, S_FXP).node
        array == find_case_insensitive(t, element, S_Array).node
        subtypes == SelectSeq(simple_types \o <<S_FXP>>, LAMBDA n : has(array, n))
    IN  IF element = 0 THEN S_NA
        ELSE IF simple # <<>> THEN simple[1]
        ELSE IF fxp # 0
        THEN S_FXP \o <<"(">> \o get_element_text_in(t, fxp, <<"W", "o", "r", "d", "L", "e", "n", "g", "t", "h">>, <<"?">>) \o <<",">>
             \o get_element_text_in(t, fxp, <<"I", "n", "t", "e", "g", "e", "r", "W", "o", "r", "d", "L", "e", "n", "g", "t", "h">>, <<"?">>) \o <<",">>
             \o (IF has(fxp, S_Unsigned) THEN S_Unsigned ELSE S_Signed) \o <<")">>
        ELSE IF array # 0
        THEN S_Array \o <<"<">> \o (IF subtypes # <<>> THEN subtypes[1] ELSE S_Unknown)
             \o <<">", "[">> \o get_element_text_in(t, array, <<"S", "i", "z", "e">>, <<"?">>) \o <<"]">>
        ELSE S_Unknown

\* signal.find("DataType") or find_case_insensitive(signal, "DataType"): an
\* element without children counts as false
data_type_element(t, signal) ==
    LET exact == FirstOr(SelectSeq(XChildren(t, signal), LAMBDA i : t[i].tag = <<"D", "a", "t", "a", "T", "y", "p", "e">>))
    IN  IF exact # 0 /\ XChildren(t, exact) # <<>> THEN exact
        ELSE find_case_insensitive(t, signal, <<"D", "a", "t", "a", "T", "y", "p", "e">>).node

\* the CSV row process_clip_xml writes for one signal with a name
clip_row(t, signal) ==
    LET name == get_attribute_case_insensitive(t, signal, <<"N", "a", "m", "e">>, <<>>)
        raw_direction == get_element_text_in(t, signal, <<"D", "i", "r", "e", "c", "t", "i", "o", "n">>, S_NA)
    IN  <<<<"I", "O", " ", "S", "o", "c", "k", "e", "t", "\\">> \o Replace(name, ".", "\\"),
          get_element_text_in(t, signal, <<"H", "D", "L", "N", "a", "m", "e">>, S_NA),
          IF raw_direction = <<"T", "o", "C", "L", "I", "P">> THEN <<"o", "u", "t", "p", "u", "t">>
          ELSE IF raw_direction = <<"F", "r", "o", "m", "C", "L", "I", "P">> THEN <<"i", "n", "p", "u", "t">>
          ELSE raw_direction,
          get_element_text_in(t, signal, <<"S", "i", "g", "n", "a", "l", "T", "y", "p", "e">>, S_NA),
          extract_data_type_in(t, data_type_element(t, signal)),
          get_element_text_in(t, signal, <<"U", "s", "e", "I", "n", "L", "a", "b", "V", "I", "E", "W", "S", "i", "n", "g", "l", "e", "C", "y", "c", "l", "e", "T", "i", "m", "e", "d", "L", "o", "o", "p">>, <<>>),
          get_element_text_in(t, signal, <<"R", "e", "q", "u", "i", "r", "e", "d", "C", "l", "o", "c", "k", "D", "o", "m", "a", "i", "n">>, <<>>)>>

\* process_clip_xml once the XML is parsed into root: the rows under the
\* header, or the exit when there is no LabVIEW interface
clip_rows(t) ==
    LET lv_interface == find_case_insensitive(t, 1, <<".", "/", "/", "I", "n", "t", "e", "r", "f", "a", "c", "e", "[", "@", "N", "a", "m", "e", "=", "'", "L", "a", "b", "V", "I", "E", "W", "'", "]">>).node
        signals == findall_case_insensitive(t, lv_interface, <<".", "/", "/", "S", "i", "g", "n", "a", "l", "L", "i", "s", "t", "/", "S", "i", "g", "n", "a", "l">>).nodes
        named == SelectSeq(signals,
                           LAMBDA s : get_attribute_case_insensitive(t, s, <<"N", "a", "m", "e">>, <<>>) # <<>>)
    IN  IF lv_interface = 0 THEN [status |-> "exit", rows |-> <<>>]
        ELSE [status |-> "ok", rows |-> [k \in 1..Len(named) |-> clip_row(t, named[k])]]

\* the tags of the drawn trees: a parent tag and a child tag, each written
\* in two ways
TreeTags == {<<"S", "i", "g", "n", "a", "l", "L", "i", "s", "t">>, <<"S", "I", "G", "N", "A", "L", "L", "I", "S", "T">>, <<"S", "i", "g", "n", "a", "l">>, <<"s", "i", "g", "n", "a", "l">>}

\* the most elements a drawn tree has
MaxNodes == 4

\* the elements a new last element can hang under, so that the sequence
\* stays in document order: the last element and its ancestors
RECURSIVE OpenElements(_, _)
OpenElements(t, i) == IF i = 0 THEN {} ELSE {i} \cup OpenElements(t, t[i].parent)

RECURSIVE TreesOfSize(_)
TreesOfSize(n) ==
    IF n = 1 THEN {<<XNode(tag, 0, <<>>, <<>>)>> : tag \in TreeTags}
    ELSE UNION {{Append(t, XNode(tag, p, <<>>, <<>>)) :
                    tag \in TreeTags, p \in OpenElements(t, Len(t))} :
                t \in TreesOfSize(n - 1)}

TreesUpTo(max) == UNION {TreesOfSize(n) : n \in 1..max}

\* one attribute
Attr(name, value) == [name |-> name, value |-> value]

\* the children a drawn signal may have, each present or missing
SignalParts == {"HDLName", "Direction", "RequiredClockDomain"}

\* the DataType child of a drawn signal: missing, empty, a simple type, or a
\* fixed-point type without IntegerWordLength
DataTypeForms == {"missing", "empty", "U16", "FXP"}

\* a descriptor with one interface and at most one signal list of one signal
ClipTree(interface_attrib, list_tag, signal_attrib, parts, data_type) ==
    LET top == <<XNode(<<"C", "L", "I", "P", "D", "e", "c", "l", "a", "r", "a", "t", "i", "o", "n">>, 0, <<>>, <<>>),
                 XNode(<<"I", "n", "t", "e", "r", "f", "a", "c", "e">>, 1, interface_attrib, <<>>)>>
        list == IF list_tag = <<>> THEN <<>>
                ELSE <<XNode(list_tag, 2, <<>>, <<>>), XNode(<<"S", "i", "g", "n", "a", "l">>, 3, signal_attrib, <<>>)>>
        part(name, tag, text) == IF name \in parts THEN <<XNode(tag, 4, <<>>, text)>> ELSE <<>>
        before == top \o list \o part("HDLName", <<"H", "D", "L", "N", "a", "m", "e">>, <<"c", "h", "0", "_", "s", "i", "g">>)
                  \o part("Direction", <<"d", "i", "r", "e", "c", "t", "i", "o", "n">>, <<"T", "o", "C", "L", "I", "P">>)
        dt == Len(before) + 1
        data == IF data_type = "missing" THEN <<>>
                ELSE IF data_type = "empty" THEN <<XNode(<<"D", "a", "t", "a", "T", "y", "p", "e">>, 4, <<>>, <<>>)>>
                ELSE IF data_type = "U16"
                THEN <<XNode(<<"D", "a", "t", "a", "T", "y", "p", "e">>, 4, <<>>, <<>>), XNode(<<"U", "1", "6">>, dt, <<>>, <<>>)>>
                ELSE <<XNode(<<"D", "a", "t", "a", "T", "y", "p", "e">>, 4, <<>>, <<>>), XNode(<<"F", "X", "P">>, dt, <<>>, <<>>),
                       XNode(<<"W", "o", "r", "d", "L", "e", "n", "g", "t", "h">>, dt + 1, <<>>, <<"1", "6">>)>>
    IN  IF list_tag = <<>> THEN top
        ELSE before \o data \o part("RequiredClockDomain", <<"R", "e", "q", "u", "i", "r", "e", "d", "C", "l", "o", "c", "k", "D", "o", "m", "a", "i", "n">>, <<"C", "l", "k", "A">>)

ClipTrees ==
    {ClipTree(ia, lt, sa, parts, data_type) :
        ia \in {<<>>, <<Attr(<<"N", "a", "m", "e">>, <<"L", "a", "b", "V", "I", "E", "W">>)>>, <<Attr(<<"n", "a", "m", "e">>, <<"l", "a", "b", "v", "i", "e", "w">>)>>,
                <<Attr(<<"N", "a", "m", "e">>, <<"F", "a", "b", "r", "i", "c">>)>>},
        lt \in {<<>>, <<"S", "i", "g", "n", "a", "l", "L", "i", "s", "t">>, <<"s", "i", "g", "n", "a", "l", "l", "i", "s", "t">>},
        sa \in {<<>>, <<Attr(<<"N", "a", "m", "e">>, <<"G", "r", "p", ".", "C", "h", "0">>)>>},
        parts \in SUBSET SignalParts,
        data_type \in DataTypeForms}

NoLookup == [helper |-> "none", element |-> 0, xpath |-> <<>>, exc |-> "none",
             nodes |-> <<>>, value |-> <<>>]

NoClipCsv == [status |-> "none", rows |-> <<>>]

\* the elements a helper is called on: None, the root, the interface, the
\* signal list and the signal
LookupElements == {i \in 0..4 : i <= Len(xml_tree)}

\* the helpers read the tree only, so one call on each drawn tree is followed
Idle == lookup = NoLookup /\ clip_csv = NoClipCsv

FindPaths ==
    {<<"I", "n", "t", "e", "r", "f", "a", "c", "e">>, <<"M", "i", "s", "s", "i", "n", "g">>, <<".", "/", "/", "s", "i", "g", "n", "a", "l">>, <<".", "/", "/", "M", "i", "s", "s", "i", "n", "g">>, <<".", "/", "/", "I", "n", "t", "e", "r", "f", "a", "c", "e", "[", "@", "N", "a", "m", "e", "=", "'", "L", "a", "b", "V", "I", "E", "W", "'", "]">>,
     <<".", "/", "/", "i", "n", "t", "e", "r", "f", "a", "c", "e", "[", "@", "N", "A", "M", "E", "=", "\"", "M", "i", "s", "s", "i", "n", "g", "\"", "]">>, <<".", "/", "/", "M", "i", "s", "s", "i", "n", "g", "[", "@", "N", "a", "m", "e", "=", "'", "L", "a", "b", "V", "I", "E", "W", "'", "]">>}

FindallPaths ==
    {<<".", "/", "/", "S", "i", "g", "n", "a", "l", "L", "i", "s", "t", "/", "S", "i", "g", "n", "a", "l">>, <<".", "/", "/", "S", "i", "g", "n", "a", "l">>, <<".", "/", "/", "M", "i", "s", "s", "i", "n", "g">>, <<".", "/", "/", "M", "i", "s", "s", "i", "n", "g", "/", "S", "i", "g", "n", "a", "l">>,
     <<".", "/", "/", "S", "i", "g", "n", "a", "l", "L", "i", "s", "t", "/", "M", "i", "s", "s", "i", "n", "g">>, <<"S", "i", "g", "n", "a", "l">>, <<"M", "i", "s", "s", "i", "n", "g">>}

\* a call of find_case_insensitive
FindCaseInsensitive ==
    /\ Idle
    /\ \E element \in LookupElements, xpath \in FindPaths :
        /\ \E r \in {find_case_insensitive(xml_tree, element, xpath)} :
              lookup' = [helper |-> "find", element |-> element, xpath |-> xpath,
                         exc |-> r.exc,
                         nodes |-> IF r.node = 0 THEN <<>> ELSE <<r.node>>,
                         value |-> <<>>]
        /\ UNCHANGED <<xml_tree, clip_csv, beside_tree>>

\* a call of findall_case_insensitive
FindallCaseInsensitive ==
    /\ Idle
    /\ \E element \in LookupElements, xpath \in FindallPaths :
        /\ \E r \in {findall_case_insensitive(xml_tree, element, xpath)} :
              lookup' = [helper |-> "findall", element |-> element, xpath |-> xpath,
                         exc |-> r.exc, nodes |-> r.nodes, value |-> <<>>]
        /\ UNCHANGED <<xml_tree, clip_csv, beside_tree>>

\* a call of get_attribute_case_insensitive with the default ""
GetAttributeCaseInsensitive ==
    /\ Idle
    /\ \E element \in LookupElements, attr_name \in {<<"N", "a", "m", "e">>, <<"N", "A", "M", "E">>, <<"M", "i", "s", "s", "i", "n", "g">>} :
        /\ lookup' = [helper |-> "get_attribute", element |-> element, xpath |-> attr_name,
                      exc |-> "none", nodes |-> <<>>,
                      value |-> get_attribute_case_insensitive(xml_tree, element, attr_name, <<>>)]
        /\ UNCHANGED <<xml_tree, clip_csv, beside_tree>>

\* a call of get_element_text with the default "N/A"
GetElementText ==
    /\ Idle
    /\ \E element \in LookupElements,
       xpath \in {<<"H", "D", "L", "N", "a", "m", "e">>, <<"D", "i", "r", "e", "c", "t", "i", "o", "n">>, <<"R", "e", "q", "u", "i", "r", "e", "d", "C", "l", "o", "c", "k", "D", "o", "m", "a", "i", "n">>, <<"D", "a", "t", "a", "T", "y", "p", "e">>, <<"M", "i", "s", "s", "i", "n", "g">>} :
        /\ lookup' = [helper |-> "get_element_text", element |-> element, xpath |-> xpath,
                      exc |-> "none", nodes |-> <<>>,
                      value |-> get_element_text_in(xml_tree, element, xpath, S_NA)]
        /\ UNCHANGED <<xml_tree, clip_csv, beside_tree>>

\* process_clip_xml(input_xml_path, output_csv_path) on a descriptor that parses
process_clip_xml ==
    /\ Idle
    /\ clip_csv' = clip_rows(xml_tree)
    /\ UNCHANGED <<xml_tree, lookup, beside_tree>>

ClipNext ==
    \/ FindCaseInsensitive
    \/ FindallCaseInsensitive
    \/ GetAttributeCaseInsensitive
    \/ GetElementText
    \/ process_clip_xml

\* the two-level and the one-level descendant query on the root of a tree
FindallOnTree ==
    /\ Idle
    /\ \E xpath \in {<<".", "/", "/", "S", "i", "g", "n", "a", "l", "L", "i", "s", "t", "/", "S", "i", "g", "n", "a", "l">>, <<".", "/", "/", "S", "i", "g", "n", "a", "l">>} :
        /\ \E r \in {findall_case_insensitive(xml_tree, 1, xpath)} :
              lookup' = [helper |-> "findall", element |-> 1, xpath |-> xpath,
                         exc |-> r.exc, nodes |-> r.nodes, value |-> <<>>]
        /\ UNCHANGED <<xml_tree, clip_csv, beside_tree>>

\* the one-level descendant lookup on the root of a tree
FindOnTree ==
    /\ Idle
    /\ \E r \in {find_case_insensitive(xml_tree, 1, <<".", "/", "/", "S", "i", "g", "n", "a", "l">>)} :
          lookup' = [helper |-> "find", element |-> 1, xpath |-> <<".", "/", "/", "S", "i", "g", "n", "a", "l">>,
                     exc |-> r.exc, nodes |-> IF r.node = 0 THEN <<>> ELSE <<r.node>>,
                     value |-> <<>>]
    /\ UNCHANGED <<xml_tree, clip_csv, beside_tree>>

TreeNext ==
    \/ FindallOnTree
    \/ FindOnTree

----------------------------------------------------------------------------
(* migrateclip.main: the CLIP migration run *)

\* most XDC constraint files a configuration names
MaxXdcFiles == 2

\* load_config: the configuration file is there and complete, is not there
\* (sys.exit(1)), or lacks a required setting (KeyError)
ConfigStates == {"ok", "missing", "incomplete"}

\* the CLIP descriptor: well-formed with signals, missing, not well-formed
\* XML, without a LabVIEW interface, without signals, or with a signal whose
\* data type map_lv_type_to_vhdl cannot convert
XmlStates == {"ok", "missing", "malformed", "no_interface", "no_signals", "bad_type"}

\* the HDL top file: with an entity, missing, or without an entity
HdlStates == {"ok", "missing", "no_entity"}

\* an XDC constraint file: readable, missing, or not readable
XdcStates == {"ok", "missing", "unreadable"}

RECURSIVE XdcLists(_)
XdcLists(n) ==
    IF n = 0 THEN {<<>>}
    ELSE XdcLists(n - 1) \cup {Append(q, x) : q \in {l \in XdcLists(n - 1) : Len(l) = n - 1},
                                             x \in XdcStates}

\* what a migration run can find
MigrateEnvs(max_xdc) ==
    [config : ConfigStates, xml : XmlStates, hdl : HdlStates, xdc : XdcLists(max_xdc),
     csv_writable : BOOLEAN, inst_writable : BOOLEAN, decl_writable : BOOLEAN]

NoMigrateEnv ==
    [config |-> "ok", xml |-> "ok", hdl |-> "ok", xdc |-> <<>>,
     csv_writable |-> TRUE, inst_writable |-> TRUE, decl_writable |-> TRUE]

NoMigrateRun ==
    [status |-> "none", code |-> 0, success |-> FALSE, csv |-> FALSE, inst |-> "none",
     xdc |-> <<>>, decl |-> "none"]

\* process_clip_xml: sys.exit for a missing or malformed descriptor and for
\* one without LabVIEW interface; SystemExit is no Exception, so the handler
\* at its end lets it pass.  Any other failure is printed and the function
\* returns.
process_clip_xml_step(env) ==
    IF env.xml \in {"missing", "malformed", "no_interface"} THEN "exit"
    ELSE IF ~env.csv_writable THEN "caught"
    ELSE "done"

\* common.generate_entity_instantiation: no handler of its own; the result
\* of the parser is written as it is, None included
generate_entity_instantiation_step(env) ==
    IF ~env.inst_writable THEN "raised"
    ELSE IF env.hdl = "ok" THEN "entity"
    ELSE "None"

\* process_constraint_file: a missing file is printed and then opened; every
\* exception is printed and the function returns
process_constraint_file_step(xdc) == IF xdc = "ok" THEN "done" ELSE "caught"

\* generate_clip_to_window_signals: returns False without a file when the
\* descriptor gives no signals or the output cannot be opened, False with
\* the declarations written so far when a data type cannot be converted,
\* True otherwise
generate_clip_to_window_signals_step(env) ==
    IF env.xml \in {"missing", "malformed", "no_interface", "no_signals"} \/ ~env.decl_writable
    THEN [returned |-> FALSE, file |-> "none"]
    ELSE IF env.xml = "bad_type" THEN [returned |-> FALSE, file |-> "partial"]
    ELSE [returned |-> TRUE, file |-> "complete"]

\* main(): how the process ends (the status sys.exit(main()) or an earlier
\* sys.exit gives), whether the success message was printed, and the files
\* that were written
main(env) ==
    LET ended(status, code, csv, inst, xdc, decl) ==
            [status |-> status, code |-> code, success |-> code = 0 /\ status = "returned",
             csv |-> csv, inst |-> inst, xdc |-> xdc, decl |-> decl]
        clip == process_clip_xml_step(env)
        inst == generate_entity_instantiation_step(env)
        xdcs == [k \in 1..Len(env.xdc) |-> process_constraint_file_step(env.xdc[k])]
        decl == generate_clip_to_window_signals_step(env)
    IN  IF env.config = "missing" THEN ended("exited", 1, FALSE, "none", <<>>, "none")
        ELSE IF env.config = "incomplete" THEN ended("returned", 1, FALSE, "none", <<>>, "none")
        ELSE IF clip = "exit" THEN ended("exited", 1, FALSE, "none", <<>>, "none")
        ELSE IF inst = "raised" THEN ended("returned", 1, clip = "done", "none", <<>>, "none")
        ELSE ended("returned", 0, clip = "done", inst,
                   [k \in 1..Len(xdcs) |-> xdcs[k] = "done"], decl.file)

\* one run of the migration
migrate_main ==
    /\ migrate_run = NoMigrateRun
    /\ migrate_run' = main(migrate_env)
    /\ UNCHANGED <<migrate_env, beside_migrate>>

MigrateNext == migrate_main

----------------------------------------------------------------------------
(* Specifications: one per tool, the other tools' state held idle *)

TypesNext ==
    \/ generate_vhdl_from_csv
    \/ generate_clip_to_window_signals

TypesSpecInit ==
    /\ sig_type \in SigTypes
    /\ csv_run = NotRun
    /\ clip_run = NotRun
    /\ vhdl_src = [shape |-> "missing_file", decls |-> <<>>, comment |-> NoComment]
    /\ vhdl_file = SourceFile(vhdl_src)
    /\ parse_result = NotParsed
    /\ inst_file = NotWritten
    /\ os_name = "posix"
    /\ listfiles = <<>>
    /\ dup_log = NoLog
    /\ gathered = NoGathered
    /\ asm_result = NotAssembled
    /\ common_result = NotAssembled
    /\ dup_checked = NotChecked
    /\ legacy_result = NotAssembled
    /\ project_file = FALSE
    /\ xilinx = FALSE
    /\ project_run = NoProjectRun
    /\ cwd = ProjectRoot
    /\ project_call = NoProjectCall
    /\ xml_tree = <<>>
    /\ lookup = NoLookup
    /\ clip_csv = NoClipCsv
    /\ migrate_env = NoMigrateEnv
    /\ migrate_run = NoMigrateRun
    /\ csv_table = <<>>
    /\ xml_out = XmlNotRun
    /\ vhdl_out = VhdlNotRun

ParseSpecInit ==
    /\ vhdl_src \in Sources
    /\ vhdl_file = SourceFile(vhdl_src)
    /\ parse_result = NotParsed
    /\ inst_file = NotWritten
    /\ sig_type = <<>>
    /\ csv_run = NotRun
    /\ clip_run = NotRun
    /\ os_name = "posix"
    /\ listfiles = <<>>
    /\ dup_log = NoLog
    /\ gathered = NoGathered
    /\ asm_result = NotAssembled
    /\ common_result = NotAssembled
    /\ dup_checked = NotChecked
    /\ legacy_result = NotAssembled
    /\ project_file = FALSE
    /\ xilinx = FALSE
    /\ project_run = NoProjectRun
    /\ cwd = ProjectRoot
    /\ project_call = NoProjectCall
    /\ xml_tree = <<>>
    /\ lookup = NoLookup
    /\ clip_csv = NoClipCsv
    /\ migrate_env = NoMigrateEnv
    /\ migrate_run = NoMigrateRun
    /\ csv_table = <<>>
    /\ xml_out = XmlNotRun
    /\ vhdl_out = VhdlNotRun

AsmSpecInit ==
    /\ os_name \in {"posix", "nt"}
    /\ listfiles \in [1..Len(VivadoProjectFilesLists) -> {[exists |-> TRUE, lines |-> <<>>],
                                                         [exists |-> FALSE, lines |-> <<>>]}]
    /\ dup_log = NoLog
    /\ gathered = NoGathered
    /\ asm_result = NotAssembled
    /\ common_result = NotAssembled
    /\ dup_checked = NotChecked
    /\ legacy_result = NotAssembled
    /\ project_file = FALSE
    /\ xilinx = FALSE
    /\ project_run = NoProjectRun
    /\ cwd = ProjectRoot
    /\ project_call = NoProjectCall
    /\ xml_tree = <<>>
    /\ lookup = NoLookup
    /\ clip_csv = NoClipCsv
    /\ migrate_env = NoMigrateEnv
    /\ migrate_run = NoMigrateRun
    /\ sig_type = <<>>
    /\ csv_run = NotRun
    /\ clip_run = NotRun
    /\ vhdl_src = [shape |-> "missing_file", decls |-> <<>>, comment |-> NoComment]
    /\ vhdl_file = SourceFile(vhdl_src)
    /\ parse_result = NotParsed
    /\ inst_file = NotWritten
    /\ csv_table = <<>>
    /\ xml_out = XmlNotRun
    /\ vhdl_out = VhdlNotRun

CsvSpecInit ==
    /\ csv_table \in CsvTables
    /\ xml_out = XmlNotRun
    /\ vhdl_out = VhdlNotRun
    /\ sig_type = <<>>
    /\ csv_run = NotRun
    /\ clip_run = NotRun
    /\ vhdl_src = [shape |-> "missing_file", decls |-> <<>>, comment |-> NoComment]
    /\ vhdl_file = SourceFile(vhdl_src)
    /\ parse_result = NotParsed
    /\ inst_file = NotWritten
    /\ os_name = "posix"
    /\ listfiles = <<>>
    /\ dup_log = NoLog
    /\ gathered = NoGathered
    /\ asm_result = NotAssembled
    /\ common_result = NotAssembled
    /\ dup_checked = NotChecked
    /\ legacy_result = NotAssembled
    /\ project_file = FALSE
    /\ xilinx = FALSE
    /\ project_run = NoProjectRun
    /\ cwd = ProjectRoot
    /\ project_call = NoProjectCall
    /\ xml_tree = <<>>
    /\ lookup = NoLookup
    /\ clip_csv = NoClipCsv
    /\ migrate_env = NoMigrateEnv
    /\ migrate_run = NoMigrateRun

ClipSpecInit ==
    /\ csv_table = <<>>
    /\ xml_out = XmlNotRun
    /\ vhdl_out = VhdlNotRun
    /\ sig_type = <<>>
    /\ csv_run = NotRun
    /\ clip_run = NotRun
    /\ vhdl_src = [shape |-> "missing_file", decls |-> <<>>, comment |-> NoComment]
    /\ vhdl_file = SourceFile(vhdl_src)
    /\ parse_result = NotParsed
    /\ inst_file = NotWritten
    /\ os_name = "posix"
    /\ listfiles = <<>>
    /\ dup_log = NoLog
    /\ gathered = NoGathered
    /\ asm_result = NotAssembled
    /\ common_result = NotAssembled
    /\ dup_checked = NotChecked
    /\ legacy_result = NotAssembled
    /\ project_file = FALSE
    /\ xilinx = FALSE
    /\ project_run = NoProjectRun
    /\ cwd = ProjectRoot
    /\ project_call = NoProjectCall
    /\ xml_tree \in ClipTrees
    /\ lookup = NoLookup
    /\ clip_csv = NoClipCsv
    /\ migrate_env = NoMigrateEnv
    /\ migrate_run = NoMigrateRun

TreeSpecInit ==
    /\ csv_table = <<>>
    /\ xml_out = XmlNotRun
    /\ vhdl_out = VhdlNotRun
    /\ sig_type = <<>>
    /\ csv_run = NotRun
    /\ clip_run = NotRun
    /\ vhdl_src = [shape |-> "missing_file", decls |-> <<>>, comment |-> NoComment]
    /\ vhdl_file = SourceFile(vhdl_src)
    /\ parse_result = NotParsed
    /\ inst_file = NotWritten
    /\ os_name = "posix"
    /\ listfiles = <<>>
    /\ dup_log = NoLog
    /\ gathered = NoGathered
    /\ asm_result = NotAssembled
    /\ common_result = NotAssembled
    /\ dup_checked = NotChecked
    /\ legacy_result = NotAssembled
    /\ project_file = FALSE
    /\ xilinx = FALSE
    /\ project_run = NoProjectRun
    /\ cwd = ProjectRoot
    /\ project_call = NoProjectCall
    /\ xml_tree \in TreesUpTo(MaxNodes)
    /\ lookup = NoLookup
    /\ clip_csv = NoClipCsv
    /\ migrate_env = NoMigrateEnv
    /\ migrate_run = NoMigrateRun

RunsSpecInit ==
    /\ os_name \in {"posix", "nt"}
    /\ listfiles \in RunListfiles
    /\ dup_log = NoLog
    /\ gathered = NoGathered
    /\ asm_result = NotAssembled
    /\ common_result = NotAssembled
    /\ dup_checked = NotChecked
    /\ legacy_result = NotAssembled
    /\ project_file = FALSE
    /\ xilinx = FALSE
    /\ project_run = NoProjectRun
    /\ cwd = ProjectRoot
    /\ project_call = NoProjectCall
    /\ xml_tree = <<>>
    /\ lookup = NoLookup
    /\ clip_csv = NoClipCsv
    /\ migrate_env = NoMigrateEnv
    /\ migrate_run = NoMigrateRun
    /\ sig_type = <<>>
    /\ csv_run = NotRun
    /\ clip_run = NotRun
    /\ vhdl_src = [shape |-> "missing_file", decls |-> <<>>, comment |-> NoComment]
    /\ vhdl_file = SourceFile(vhdl_src)
    /\ parse_result = NotParsed
    /\ inst_file = NotWritten
    /\ csv_table = <<>>
    /\ xml_out = XmlNotRun
    /\ vhdl_out = VhdlNotRun

ProjectSpecInit ==
    /\ os_name \in {"posix", "nt"}
    /\ listfiles \in ProjectListfiles
    /\ dup_log = NoLog
    /\ gathered = NoGathered
    /\ asm_result = NotAssembled
    /\ common_result = NotAssembled
    /\ dup_checked = NotChecked
    /\ legacy_result = NotAssembled
    /\ project_file \in BOOLEAN
    /\ xilinx \in BOOLEAN
    /\ project_run = NoProjectRun
    /\ cwd = ProjectRoot
    /\ project_call = NoProjectCall
    /\ xml_tree = <<>>
    /\ lookup = NoLookup
    /\ clip_csv = NoClipCsv
    /\ migrate_env = NoMigrateEnv
    /\ migrate_run = NoMigrateRun
    /\ sig_type = <<>>
    /\ csv_run = NotRun
    /\ clip_run = NotRun
    /\ vhdl_src = [shape |-> "missing_file", decls |-> <<>>, comment |-> NoComment]
    /\ vhdl_file = SourceFile(vhdl_src)
    /\ parse_result = NotParsed
    /\ inst_file = NotWritten
    /\ csv_table = <<>>
    /\ xml_out = XmlNotRun
    /\ vhdl_out = VhdlNotRun

MigrateSpecInit ==
    /\ sig_type = <<>>
    /\ csv_run = NotRun
    /\ clip_run = NotRun
    /\ vhdl_src = [shape |-> "missing_file", decls |-> <<>>, comment |-> NoComment]
    /\ vhdl_file = SourceFile(vhdl_src)
    /\ parse_result = NotParsed
    /\ inst_file = NotWritten
    /\ os_name = "posix"
    /\ listfiles = <<>>
    /\ dup_log = NoLog
    /\ gathered = NoGathered
    /\ asm_result = NotAssembled
    /\ common_result = NotAssembled
    /\ dup_checked = NotChecked
    /\ legacy_result = NotAssembled
    /\ project_file = FALSE
    /\ xilinx = FALSE
    /\ project_run = NoProjectRun
    /\ cwd = ProjectRoot
    /\ project_call = NoProjectCall
    /\ xml_tree = <<>>
    /\ lookup = NoLookup
    /\ clip_csv = NoClipCsv
    /\ migrate_env \in MigrateEnvs(MaxXdcFiles)
    /\ migrate_run = NoMigrateRun
    /\ csv_table = <<>>
    /\ xml_out = XmlNotRun
    /\ vhdl_out = VhdlNotRun

\* the data-type mappers on every drawn DataType string
SpecTypes == TypesSpecInit /\ [][TypesNext]_vars

\* the entity-port parser and the instantiation emitter on every drawn source
SpecParse == ParseSpecInit /\ [][ParseNext]_vars


\* the file-set assemblers on every drawn set of listfiles
SpecAsm == AsmSpecInit /\ [][AsmNext]_vars

\* the signal table generators on every drawn table
SpecCsv == CsvSpecInit /\ [][CsvNext]_vars

\* the three assemblers on every drawn listfile
SpecRuns == RunsSpecInit /\ [][RunsNext]_vars

\* project creation and assembler runs, the listfile rewritten in between
SpecProject == ProjectSpecInit /\ [][ProjectNext]_vars

\* the tree query helpers and the descriptor reader on every drawn descriptor
SpecClip == ClipSpecInit /\ [][ClipNext]_vars

\* the descendant queries on every drawn tree
SpecTree == TreeSpecInit /\ [][TreeNext]_vars

\* the migration run on every drawn set of input files
SpecMigrate == MigrateSpecInit /\ [][MigrateNext]_vars

ProcessSpecInit ==
    /\ os_name \in {"posix", "nt"}
    /\ listfiles \in ProjectListfiles
    /\ dup_log = NoLog
    /\ gathered = NoGathered
    /\ asm_result = NotAssembled
    /\ common_result = NotAssembled
    /\ dup_checked = NotChecked
    /\ legacy_result = NotAssembled
    /\ project_file \in BOOLEAN
    /\ xilinx \in BOOLEAN
    /\ project_run = NoProjectRun
    /\ cwd = ProjectRoot
    /\ project_call = NoProjectCall
    /\ xml_tree = <<>>
    /\ lookup = NoLookup
    /\ clip_csv = NoClipCsv
    /\ migrate_env = NoMigrateEnv
    /\ migrate_run = NoMigrateRun
    /\ sig_type = <<>>
    /\ csv_run = NotRun
    /\ clip_run = NotRun
    /\ vhdl_src = [shape |-> "missing_file", decls |-> <<>>, comment |-> NoComment]
    /\ vhdl_file = SourceFile(vhdl_src)
    /\ parse_result = NotParsed
    /\ inst_file = NotWritten
    /\ csv_table = <<>>
    /\ xml_out = XmlNotRun
    /\ vhdl_out = VhdlNotRun

\* direct calls of create_project in one process
SpecProcess == ProcessSpecInit /\ [][ProcessNext]_vars

HierarchySpecInit ==
    /\ csv_table \in HierarchyTables(MaxRows)
    /\ xml_out = XmlNotRun
    /\ vhdl_out = VhdlNotRun
    /\ sig_type = <<>>
    /\ csv_run = NotRun
    /\ clip_run = NotRun
    /\ vhdl_src = [shape |-> "missing_file", decls |-> <<>>, comment |-> NoComment]
    /\ vhdl_file = SourceFile(vhdl_src)
    /\ parse_result = NotParsed
    /\ inst_file = NotWritten
    /\ os_name = "posix"
    /\ listfiles = <<>>
    /\ dup_log = NoLog
    /\ gathered = NoGathered
    /\ asm_result = NotAssembled
    /\ common_result = NotAssembled
    /\ dup_checked = NotChecked
    /\ legacy_result = NotAssembled
    /\ project_file = FALSE
    /\ xilinx = FALSE
    /\ project_run = NoProjectRun
    /\ cwd = ProjectRoot
    /\ project_call = NoProjectCall
    /\ xml_tree = <<>>
    /\ lookup = NoLookup
    /\ clip_csv = NoClipCsv
    /\ migrate_env = NoMigrateEnv
    /\ migrate_run = NoMigrateRun

\* the two generators on every drawn table of several rows
SpecHierarchy == HierarchySpecInit /\ [][CsvNext]_vars

----------------------------------------------------------------------------
(* Claims about the data-type mappers, checked under SpecTypes *)

FxpText(w, i, sgn) ==
    S_FXP \o <<"(">> \o FmtInt(w) \o <<",">> \o FmtInt(i) \o <<",">> \o sgn \o <<")">>

ArrayText(elem, n) == S_Array \o <<"<">> \o elem \o <<">", "[">> \o FmtInt(n) \o <<"]">>

FxpTypes ==
    {FxpText(w, i, sgn) : w \in 1..MaxWordLength, i \in (0 - 1)..MaxIntWordLength,
                          sgn \in {S_Signed, S_Unsigned}}

\* the closed grammar: Boolean, the integers, FXP, arrays of the simple types
ClosedGrammar ==
    SimpleTypes \cup FxpTypes
    \cup {ArrayText(e, n) : e \in SimpleTypes, n \in 1..MaxArraySize}

\* width(elem) of the spec: 1 for Boolean, w for Uw / Iw, 32 for anything else
SpecWidth(elem) ==
    IF elem = S_Boolean THEN 1
    ELSE IF IsSimpleInt(elem) THEN ParseInt(Tail(elem)).val
    ELSE 32

BothRun == csv_run # NotRun /\ clip_run # NotRun

\* C5: for every data-type string of the closed grammar the two mappers return
\* the same VHDL type, std_logic for Boolean and std_logic_vector(w-1 downto 0)
\* for an integer of width w.
C5_MappersAgree ==
    (BothRun /\ sig_type \in ClosedGrammar) =>
        /\ csv_run.status = "ok"
        /\ clip_run.status = "ok"
        /\ csv_run.vhdl = clip_run.vhdl
        /\ (sig_type = S_Boolean => csv_run.vhdl = STD_LOGIC)
        /\ (IsSimpleInt(sig_type) => csv_run.vhdl = SlvText(SpecWidth(sig_type) - 1))

\* C6: for every Array<elem>[size] each mapper returns a vector of width
\* size x width(elem), unknown element types (FXP, Unknown) counting as 32,
\* and neither raises.
C6_ArrayWidth ==
    \A e \in SimpleTypes \cup {S_FXP, S_Unknown}, n \in 1..MaxArraySize :
        sig_type = ArrayText(e, n) =>
            /\ (csv_run # NotRun =>
                    csv_run = [status |-> "ok", vhdl |-> SlvText(n * SpecWidth(e) - 1)])
            /\ (clip_run # NotRun =>
                    clip_run = [status |-> "ok", vhdl |-> SlvText(n * SpecWidth(e) - 1)])

\* data-type strings outside the closed grammar: what extract_data_type emits
\* for a missing or unrecognised element or for missing FXP parameters, and an
\* integer name with a non-numeric suffix
OutsideGrammar ==
    {S_Unknown, S_NA, <<"U", "8", "x">>,
     S_FXP \o <<"(", "?", ",", "?", ",">> \o S_Signed \o <<")">>}

\* C7: every data-type string outside the closed grammar is mapped by both
\* caller paths to std_logic_vector(31 downto 0) and the run continues.
C7_MalformedDefault ==
    sig_type \in OutsideGrammar =>
        /\ (csv_run # NotRun =>
                csv_run = [status |-> "ok", vhdl |-> SlvText(31)])
        /\ (clip_run # NotRun =>
                clip_run = [status |-> "ok", vhdl |-> SlvText(31)])

\* C8: for every FXP(word_length, integer_length, Signed|Unsigned) both mappers
\* return std_logic_vector(word_length-1 downto 0), whatever the integer
\* length and the signedness.
C8_FxpWidth ==
    \A w \in 1..MaxWordLength, i \in (0 - 1)..MaxIntWordLength,
       sgn \in {S_Signed, S_Unsigned} :
        sig_type = FxpText(w, i, sgn) =>
            /\ (csv_run # NotRun =>
                    csv_run = [status |-> "ok", vhdl |-> SlvText(w - 1)])
            /\ (clip_run # NotRun =>
                    clip_run = [status |-> "ok", vhdl |-> SlvText(w - 1)])

\* an unsigned FXP with a two-digit word length went through both mappers
C8_Witness ==
    /\ sig_type = FxpText(12, 1, S_Unsigned)
    /\ csv_run = [status |-> "ok", vhdl |-> SlvText(11)]
    /\ clip_run = [status |-> "ok", vhdl |-> SlvText(11)]

----------------------------------------------------------------------------
(* Claims about the entity-port parser and the emitter, checked under SpecParse *)

\* a well-formed entity text: entity header, port section, balanced parentheses
WellFormed(src) == src.shape \in {"full", "trailing_semicolon"} /\ src.comment = NoComment

\* the names the author declared: those of the declarations that have a ':',
\* declaration by declaration, each declaration's names left to right
DeclaredPorts(src) ==
    Concat([k \in 1..Len(src.decls) |->
                IF src.decls[k].kind = "noise" THEN <<>> ELSE src.decls[k].names])

RECURSIVE SumLens(_)
SumLens(ss) == IF ss = <<>> THEN 0 ELSE Len(Head(ss)) + SumLens(Tail(ss))

ReadBackPorts(text) ==
    LET lines == Split(text, "\n")
        start == CHOOSE k \in 1..Len(lines) :
                     lines[k] = <<"p", "o", "r", "t", " ", "m", "a", "p", " ", "(">>
        assoc == SelectSeq(SubSeq(lines, start + 1, Len(lines)),
                           LAMBDA l : Contains(l, <<"=", ">">>))
    IN  [k \in 1..Len(assoc) |->
            Strip(SubSeq(assoc[k], 1, Find(assoc[k], <<"=", ">">>, 1) - 1))]

\* C9: the names read back from the left of each '=>' of the emitted port map
\* are the ports handed to the emitter, in order and with multiplicity, the
\* empty port list included.
C9_RoundTrip ==
    inst_file.written => ReadBackPorts(inst_file.text) = parse_result.ports

\* an instantiation with a repeated port was emitted
C9_Witness ==
    /\ inst_file.written
    /\ parse_result.ports = <<N_a, N_b, N_ck, N_a, N_a>>

\* opening minus closing parentheses of text[from..to]
Depth(text, from, to) ==
    Cardinality({j \in from..to : text[j] = "("})
    - Cardinality({j \in from..to : text[j] = ")"})

\* counted from level 1 at position from, the level never returns to 0
NeverCloses(text, from) ==
    \A k \in from..Len(text) : text[k] = ")" => 1 + Depth(text, from, k) > 0

\* the source has a port section whose parentheses never return to level 0
UnbalancedSource ==
    /\ vhdl_src.shape \in {"full", "trailing_semicolon", "no_close", "open_type"}
    /\ NeverCloses(vhdl_file.text,
                   Find(vhdl_file.text, <<"P", "o", "r", "t", " ", "(">>, 1) + 6)

\* C10: when the parentheses of the port section never return to level 0,
\* parse_vhdl_entity reports UnbalancedParentheses and returns no ports.
C10_UnbalancedNoPorts ==
    (parse_result.done /\ UnbalancedSource) =>
        /\ parse_result.error = "UnbalancedParentheses"
        /\ parse_result.ports = <<>>

\* a source whose last declaration lacks a closing parenthesis, after two
\* complete declarations, was parsed
C10_Witness ==
    /\ parse_result.done
    /\ vhdl_src.shape = "open_type"
    /\ Len(vhdl_src.decls) = 2
    /\ vhdl_src.decls[1].kind = "vector"
    /\ UnbalancedSource
    /\ parse_result.error = "UnbalancedParentheses"


\* the same source written without its comment
Uncommented(src) == [src EXCEPT !.comment = NoComment]

\* C11: for a well-formed entity text, a '--' line comment of arbitrary
\* content at the end of a line of the port section does not change the
\* entity name and the port list parse_vhdl_entity returns.
C11_CommentsIgnored ==
    (/\ parse_result.done
     /\ vhdl_src.shape = "full"
     /\ vhdl_src.comment # NoComment)
    => LET plain == parse_vhdl_entity(SourceFile(Uncommented(vhdl_src)))
       IN  /\ parse_result.is_none = plain.is_none
           /\ parse_result.entity_name = plain.entity_name
           /\ parse_result.ports = plain.ports

----------------------------------------------------------------------------
(* Claims about the port map and about the sources without a port section *)

\* the associations of a port map, as the claim words them: "port => port"
\* for each port in order, a comma after each but the last
RECURSIVE Associations(_)
Associations(ports) ==
    IF ports = <<>> THEN <<>>
    ELSE <<" ", " ", " ", " ">> \o Head(ports) \o <<" ", "=", ">", " ">> \o Head(ports)
         \o (IF Len(ports) > 1 THEN <<",">> \o <<"\n">> ELSE <<>>)
         \o Associations(Tail(ports))

\* the port-map block of a port list, from "port map (" to ");"
PortMapBlock(ports) ==
    <<"p", "o", "r", "t", " ", "m", "a", "p", " ", "(">> \o <<"\n">> \o Associations(ports) \o <<"\n">> \o <<")", ";">> \o <<"\n">>

\* how often p occurs in s
Occurrences(s, p) ==
    Cardinality({i \in 1..(Len(s) - Len(p) + 1) : SubSeq(s, i, i + Len(p) - 1) = p})

\* C22: the emitted instantiation ends with one port-map block that holds
\* one 'port => port' association per port, in port order, separated by
\* commas with no comma after the last, and closed by ');'; for an empty
\* port list the block is still there, as an empty pair of parentheses.
C22_PortMapBlock ==
    inst_file.written =>
        /\ EndsWith(inst_file.text, PortMapBlock(parse_result.ports))
        /\ Occurrences(inst_file.text, <<"=", ">">>) = Len(parse_result.ports)
        /\ Occurrences(inst_file.text, <<",">>) = IF parse_result.ports = <<>> THEN 0
                                               ELSE Len(parse_result.ports) - 1
        /\ Occurrences(inst_file.text, <<"p", "o", "r", "t", " ", "m", "a", "p", " ", "(">>) = 1
        /\ parse_result.ports = <<>> =>
              EndsWith(inst_file.text, <<"p", "o", "r", "t", " ", "m", "a", "p", " ", "(">> \o <<"\n", "\n">> \o <<")", ";">> \o <<"\n">>)

\* an instantiation of three ports was emitted: two commas, none after the last
C22_Witness ==
    /\ inst_file.written
    /\ parse_result.ports = <<N_a, N_a, N_b>>
    /\ EndsWith(inst_file.text, <<" ", " ", " ", " ", "b", " ", "=", ">", " ", "b">> \o <<"\n">> \o <<")", ";">> \o <<"\n">>)

\* the source has an entity declaration and no "port (" after it: it has no
\* port section at all, or its only "Port (" stands in a component
\* declaration before the entity
NoPortAfterEntity ==
    /\ vhdl_src.shape \in {"no_port", "port_before"}
    /\ LET text == LowerStr(vhdl_file.text)
           entity == Find(text, <<"e", "n", "t", "i", "t", "y", " ", "t", "o", "p", " ", "i", "s">>, 1)
       IN  /\ entity # 0
           /\ Find(text, <<"p", "o", "r", "t">>, entity) = 0
           /\ vhdl_src.shape = "port_before" => Find(text, <<"p", "o", "r", "t", " ", "(">>, 1) \in 1..(entity - 1)

\* C23: when the text has an entity declaration but no 'port (' after it,
\* parse_vhdl_entity returns the entity name with an empty port list and
\* reports that no port section was found; a 'port (' that stands before
\* the entity declaration is never used.
C23_NoPortSection ==
    (NoPortAfterEntity /\ parse_result.done) =>
        /\ ~parse_result.is_none
        /\ parse_result.entity_name = <<"t", "o", "p">>
        /\ parse_result.ports = <<>>
        /\ parse_result.error = "NoPortSectionFound"

\* a source whose only "Port (", with a declaration in it, stands before the
\* entity declaration was parsed
C23_Witness ==
    /\ vhdl_src.shape = "port_before"
    /\ vhdl_src.decls = <<[kind |-> "plain", names |-> <<N_a, N_b>>]>>
    /\ parse_result.done
    /\ parse_result.ports = <<>>
    /\ parse_result.error = "NoPortSectionFound"

\* C24: when the source holds no entity declaration, or the source file is
\* missing, generate_entity_instantiation writes no instantiation file: the
\* parse error is fatal for this artifact, and no file names an entity
\* 'None'.
C24_NoEntityNoFile ==
    /\ vhdl_src.shape \in {"no_entity", "missing_file"} => ~inst_file.written
    /\ inst_file.written => ~Contains(inst_file.text, <<"e", "n", "t", "i", "t", "y", " ", "w", "o", "r", "k", ".", "N", "o", "n", "e">>)

----------------------------------------------------------------------------
(* Claims about the file-set assemblers *)

\* the combined expansion of the listfiles as they stand
Expansion == expand(listfiles, os_name)

PathSet(file_list) == {file_list[i] : i \in 1..Len(file_list)}

\* the basenames that two or more distinct paths of the list share
CollidingNames(file_list) ==
    {basename(p, os_name) : p \in {q \in PathSet(file_list) :
        \E r \in PathSet(file_list) : r # q /\ basename(r, os_name) = basename(q, os_name)}}

\* every dependency file of the list can be read
AllCopyable(file_list) ==
    \A p \in PathSet(file_list) : Contains(p, Marker) => p \in FsFiles

IsSorted(file_list) ==
    \A i \in 1..(Len(file_list) - 1) : ~StrLess(file_list[i + 1], file_list[i])

\* C2: whenever the expansion of the listfiles has no two distinct paths with
\* one basename (and its dependency files can be copied), the assembler
\* succeeds and returns a list that is sorted by path and has as many entries
\* as the expansion has distinct paths, so a path listed twice appears once.
C2_NoCollisionAssembles ==
    (/\ asm_result # NotAssembled
     /\ ~Expansion.missing
     /\ CollidingNames(Expansion.file_list) = {}
     /\ AllCopyable(Expansion.file_list))
    => /\ asm_result.status = "ok"
       /\ IsSorted(asm_result.files)
       /\ Len(asm_result.files) = Cardinality(PathSet(Expansion.file_list))

\* the blocks of the log that are headed by a basename
BlocksOf(name) == {k \in 1..Len(dup_log.blocks) : dup_log.blocks[k].file_name = name}

\* C3: whenever the combined expansion of all listfiles holds two or more
\* distinct paths with one basename, the assembler raises ValueError, returns
\* no list, and the log holds exactly one block for each colliding basename,
\* which lists every path of the expansion that has this basename.
C3_CollisionRejected ==
    (/\ asm_result # NotAssembled
     /\ ~Expansion.missing
     /\ CollidingNames(Expansion.file_list) # {})
    => /\ asm_result.status = "ValueError"
       /\ asm_result.files = <<>>
       /\ dup_log.exists
       /\ \A name \in CollidingNames(Expansion.file_list) :
             /\ Cardinality(BlocksOf(name)) = 1
             /\ \A k \in BlocksOf(name) :
                   PathSet(dup_log.blocks[k].paths)
                   = {p \in PathSet(Expansion.file_list) : basename(p, os_name) = name}

\* x.vhd listed under two directories, one in each listfile, was rejected
\* with one block naming both paths
C3_Witness ==
    /\ listfiles[1].lines = <<F_rtl_x>>
    /\ listfiles[2].lines = <<F_ip_x>>
    /\ asm_result.status = "ValueError"
    /\ dup_log.blocks = <<[file_name |-> basename(F_rtl_x, os_name),
                           paths |-> <<F_rtl_x, F_ip_x>>]>>

\* C4: the shared assembler raises ValueError when two collected paths share
\* a basename, so the list it returns never holds two entries with one
\* basename.
C4_CommonRejectsDuplicates ==
    LET collected == Expansion.file_list
        returned == common_result.files
    IN  common_result # NotAssembled
        => /\ (\E i, j \in 1..Len(collected) :
                  i # j /\ basename(collected[i], os_name) = basename(collected[j], os_name))
              => (Expansion.missing \/ common_result.status = "ValueError")
           /\ \A i, j \in 1..Len(returned) :
                 i # j => basename(returned[i], os_name) # basename(returned[j], os_name)


\* C16: if any of the configured listfiles does not exist, whatever its
\* position in the list, each assembler raises FileNotFoundError and returns
\* no list, even when it read an earlier listfile.
C16_MissingListfile ==
    (\E k \in 1..Len(listfiles) : ~listfiles[k].exists)
    => /\ asm_result # NotAssembled => asm_result = AsmRaised("FileNotFoundError")
       /\ common_result # NotAssembled => common_result = AsmRaised("FileNotFoundError")

\* the first listfile was read, the second is missing, and both assemblers
\* ran
C16_Witness ==
    /\ listfiles[1].exists
    /\ listfiles[1].lines = <<F_rtl_x>>
    /\ ~listfiles[2].exists
    /\ asm_result = AsmRaised("FileNotFoundError")
    /\ common_result = AsmRaised("FileNotFoundError")
----------------------------------------------------------------------------
(* Claims about the signal table generators, checked under SpecCsv *)

\* a data row: its SignalType is not "clock"
DataRow(row) == LowerStr(row.SignalType) # <<"c", "l", "o", "c", "k">>

\* the IOResource elements generate_xml_from_csv made for a logical name
IOResourcesOf(lv_name) ==
    {i \in 1..Len(xml_out.boardio) :
        /\ xml_out.boardio[i].tag = "IOResource"
        /\ xml_out.boardio[i].attrib["name"] = lv_name}

\* the stock prototype of a simple type for a direction suffix
StockPrototype(data_type, suffix) ==
    <<"#", "{", "d", "o", "c", "u", "m", "e", "n", "t", "-", "r", "o", "o", "t", "}", "/", "S", "t", "o", "c", "k", "/">>
    \o (IF data_type = S_Boolean THEN <<"b", "o", "o", "l">> ELSE LowerStr(data_type))
    \o <<"D", "i", "g", "i", "t", "a", "l">> \o suffix

FxpAttributes == {"wordLength", "integerWordLength", "unsigned"}

\* a DataType of the form FXP(...)
IsFxpCall(data_type) == StartsWith(data_type, S_FXP \o <<"(">>) /\ EndsWith(data_type, <<")">>)

\* what the claim expects of one row of direction input or output
RowToXmlAndVhdl(row) ==
    LET simple == row.DataType \in SimpleTypes
        suffix == IF row.Direction = <<"i", "n", "p", "u", "t">>
                  THEN <<"I", "n", "p", "u", "t">>
                  ELSE <<"O", "u", "t", "p", "u", "t", "W", "i", "t", "h", "o", "u", "t",
                         "R", "e", "a", "d", "b", "a", "c", "k">>
    IN  /\ xml_out # XmlNotRun =>
              /\ xml_out.status = "ok"
              /\ Cardinality(IOResourcesOf(row.LVName)) = 1
              /\ \A i \in IOResourcesOf(row.LVName) :
                    LET attrib == xml_out.boardio[i].attrib
                    IN  /\ simple => attrib["prototype"] = StockPrototype(row.DataType, suffix)
                        /\ IF IsFxpCall(row.DataType)
                           THEN FxpAttributes \subseteq DOMAIN attrib
                           ELSE FxpAttributes \cap DOMAIN attrib = {}
        /\ (vhdl_out # VhdlNotRun /\ simple) =>
              /\ vhdl_out.status = "ok"
              /\ vhdl_out.signals =
                    <<[name |-> row.HDLName,
                       direction |-> IF row.Direction = <<"i", "n", "p", "u", "t">>
                                     THEN "in" ELSE "out",
                       type |-> IF row.DataType = S_Boolean THEN STD_LOGIC
                                ELSE SlvText(SpecWidth(row.DataType) - 1),
                       lv_name |-> row.LVName]>>

InputOrOutput(row) ==
    row.Direction \in {<<"i", "n", "p", "u", "t">>, <<"o", "u", "t", "p", "u", "t">>}

ClocksOf(lv_name) ==
    {i \in 1..Len(xml_out.clocklist) :
        /\ xml_out.clocklist[i].tag = "Clock"
        /\ xml_out.clocklist[i].attrib["name"] = original_name(lv_name)}

\* the entries of custom_signals generate_vhdl_from_csv made for a logical name
SignalsOf(lv_name) ==
    {i \in 1..Len(vhdl_out.signals) : vhdl_out.signals[i].lv_name = lv_name}

\* both generators went through the table
BothGenerated == xml_out.status = "ok" /\ vhdl_out.status = "ok"

\* C29: the BoardIO XML and the VHDL signal list describe the same signals:
\* once both generators have run, a row has an IOResource if and only if it
\* is in custom_signals, and it has exactly one of a Clock element and an
\* IOResource; a row of SignalType clock and Direction output included.
C29_SameSignals ==
    BothGenerated =>
        \A k \in 1..Len(csv_table) :
            LET row == csv_table[k]
            IN  /\ (IOResourcesOf(row.LVName) # {}) <=> (SignalsOf(row.LVName) # {})
                /\ Cardinality(IOResourcesOf(row.LVName)) + Cardinality(ClocksOf(row.LVName)) = 1

\* the part that holds for every row: one Clock element or one IOResource
OneClockOrOneIOResource ==
    xml_out.status = "ok" =>
        \A k \in 1..Len(csv_table) :
            Cardinality(IOResourcesOf(csv_table[k].LVName))
                + Cardinality(ClocksOf(csv_table[k].LVName)) = 1

\* the two lists agree on every row that is no clock, and on every clock input
SameSignalsBesideClockOutputs ==
    BothGenerated =>
        \A k \in 1..Len(csv_table) :
            (DataRow(csv_table[k]) \/ csv_table[k].Direction = <<"i", "n", "p", "u", "t">>)
            => ((IOResourcesOf(csv_table[k].LVName) # {})
                    <=> (SignalsOf(csv_table[k].LVName) # {}))
----------------------------------------------------------------------------
(* Claims about directory expansion, relocation and the runs of the
   assemblers, checked under SpecRuns and SpecProject *)

\* the lines of the listfiles that are neither empty nor comments, stripped
KeptLines ==
    LET all == Concat([k \in 1..Len(listfiles) |-> listfiles[k].lines])
        stripped == [k \in 1..Len(all) |-> Strip(all[k])]
    IN  SelectSeq(stripped, LAMBDA l : l # <<>> /\ l[1] # "#")

\* the extensions a directory expansion is to keep
ExpansionExtensions ==
    {<<".", "v", "h", "d">>, <<".", "v">>, <<".", "s", "v">>, <<".", "x", "d", "c">>, <<".", "e", "d", "f">>, <<".", "d", "c", "p">>, <<".", "x", "c", "i">>}

\* the files anywhere under a directory that have one of these extensions
ExpectedUnder(d) ==
    {f \in FsFiles : /\ StartsWith(f, d \o <<"/">>)
                     /\ \E e \in ExpansionExtensions : EndsWith(f, e)}

\* the entries one kept line is to give
ExpectedOf(line) == IF line \in FsDirs THEN ExpectedUnder(line) ELSE {line}

ExpectedPaths == UNION {ExpectedOf(KeptLines[k]) : k \in 1..Len(KeptLines)}

RECURSIVE ExpectedCount(_)
ExpectedCount(n) ==
    IF n = 0 THEN 0 ELSE ExpectedCount(n - 1) + Cardinality(ExpectedOf(KeptLines[n]))

BaseNames(paths) == {basename(p, os_name) : p \in paths}

\* the list of the shared assembler holds the expected entries as they are;
\* a list createvivadoproject returned holds one entry for each of them
ExpansionOfTools ==
    /\ common_result.status = "ok" =>
          /\ PathSet(common_result.files) = ExpectedPaths
          /\ Len(common_result.files) = ExpectedCount(Len(KeptLines))
    /\ asm_result.status = "ok" =>
          /\ BaseNames(PathSet(asm_result.files)) = BaseNames(ExpectedPaths)
          /\ Len(asm_result.files) = Cardinality(ExpectedPaths)

\* the same of the legacy package: its assembler, and its directory listing
ExpansionOfLegacy ==
    /\ legacy_result.status = "ok" =>
          /\ BaseNames(PathSet(legacy_result.files)) = BaseNames(ExpectedPaths)
          /\ Len(legacy_result.files) = Cardinality(ExpectedPaths)
    /\ \A k \in 1..Len(KeptLines) :
          KeptLines[k] \in FsDirs =>
             PathSet(list_all_files(KeptLines[k], os_name)) = ExpectedUnder(KeptLines[k])

\* C13: for a listfile line that names a directory the assembler includes
\* exactly the files found recursively under it whose extension is one of
\* .vhd, .v, .sv, .xdc, .edf, .dcp, .xci, and no other file of the directory;
\* a line that is not a directory is included as one entry whatever its
\* extension.
C13_DirectoryExpansion == ExpansionOfTools /\ ExpansionOfLegacy

\* the marker is one of the segments of the path
MarkerSegment(p) ==
    LET segments == Split(p, "/")
    IN  \E k \in 1..Len(segments) : segments[k] = Marker

\* the entry of a returned list that stands for a relocated path
RelocatedEntries(files, p) ==
    {e \in PathSet(files) : /\ e # p
                            /\ Contains(e, <<"g", "a", "t", "h", "e", "r", "e", "d", "d", "e", "p", "s">>)
                            /\ basename(e, os_name) = basename(p, os_name)}

\* what the claim expects of a list an assembler returned
RelocatesMarkerSegments(files) ==
    \A p \in ExpectedPaths :
        IF MarkerSegment(p)
        THEN /\ RelocatedEntries(files, p) # {}
             /\ p \notin PathSet(files)
             /\ \E g \in gathered.files : g.from = p /\ g.name = basename(p, os_name)
        ELSE /\ p \in PathSet(files)
             /\ RelocatedEntries(files, p) = {}
             /\ \A g \in gathered.files : g.from # p

\* C14: the assembler relocates exactly the entries whose path has the marker
\* githubdeps as a path segment: each is copied into objects/gathereddeps and
\* replaced in the list by the target directory joined with its basename;
\* every other entry, one with the marker inside a file name included, stays
\* in the list unchanged and is not copied.
C14_RelocatesExactlyMarkerSegments ==
    /\ asm_result.status = "ok" => RelocatesMarkerSegments(asm_result.files)
    /\ legacy_result.status = "ok" => RelocatesMarkerSegments(legacy_result.files)


\* the call of create_project_handler that project_run records went on to
\* create_project
CreateProjectCalled ==
    /\ project_run.status # "none"
    /\ \/ ~project_run.overwrite /\ ~project_run.updatefiles /\ ~project_run.existed
       \/ project_run.updatefiles /\ ~project_run.overwrite /\ project_run.existed
       \/ project_run.overwrite /\ ~project_run.updatefiles

\* the listfiles are read and free of duplicates, and a dependency of theirs
\* cannot be copied
CopyFails ==
    /\ \A k \in 1..Len(listfiles) : listfiles[k].exists
    /\ \A i, j \in 1..Len(KeptLines) :
          i # j => basename(KeptLines[i], os_name) # basename(KeptLines[j], os_name)
    /\ \E k \in 1..Len(KeptLines) :
          Contains(KeptLines[k], Marker) /\ KeptLines[k] \notin FsFiles

\* C15: if copying a dependency file fails, get_vivado_project_files raises
\* IOError and returns no list, and a create_project that made this assembly
\* ends with the IOError, having generated no TCL script and started no
\* Vivado.
C15_CopyFailureAborts ==
    CopyFails =>
        /\ asm_result # NotAssembled =>
              asm_result.status = "IOError" /\ asm_result.files = <<>>
        /\ CreateProjectCalled =>
              /\ project_run.status = "IOError"
              /\ ~project_run.tcl
              /\ ~project_run.target_support
              /\ project_run.vivado = "none"
              /\ asm_result = AsmRaised("IOError")

\* create_project met the dependency githubdeps/m.vhd, which does not exist,
\* after it had copied githubdeps/z.vhd
C15_Witness ==
    /\ listfiles[1].lines = <<F_dep_z, F_dep_m>>
    /\ xilinx
    /\ CreateProjectCalled
    /\ project_run.status = "IOError"
    /\ \E g \in gathered.files : g.from = F_dep_z

\* two entries of the listfiles have one basename
ListedTwice ==
    \E i, j \in 1..Len(KeptLines) :
        i # j /\ basename(KeptLines[i], os_name) = basename(KeptLines[j], os_name)

\* an assembler made its duplicate check on the listfiles as they stand
CheckedAsListed ==
    /\ \A k \in 1..Len(listfiles) : listfiles[k].exists
    /\ \/ asm_result # NotAssembled
       \/ legacy_result # NotAssembled

\* C17: after any sequence of assembler runs, duplicate_files.log exists if
\* and only if the most recent duplicate check found a colliding basename; a
\* log left by an earlier failing run does not survive a later run without
\* duplicates.
C17_LogIffLastCheckCollided ==
    /\ dup_checked.last # "none" => (dup_log.exists <=> dup_checked.last = "collisions")
    /\ CheckedAsListed => (dup_log.exists <=> ListedTwice)

\* a run without duplicates followed a run that had left a log
C17_Witness ==
    /\ dup_checked = [last |-> "clean", before |-> "collisions"]
    /\ asm_result.status = "ok"
    /\ ~dup_log.exists


\* the paths of the blocks of duplicate_files.log
LoggedPaths ==
    UNION {PathSet(dup_log.blocks[k].paths) : k \in 1..Len(dup_log.blocks)}

\* a path as it stands after relocation: in the consolidated folder
InGatheredFolder(p) == Contains(p, <<"g", "a", "t", "h", "e", "r", "e", "d", "d", "e", "p", "s">>)

\* what the order of the steps shows in a list an assembler returned: the
\* list is sorted as it stands, relocated entries included, and each
\* relocated entry was copied
SortedOverFinalPaths(files) ==
    /\ IsSorted(files)
    /\ \A p \in PathSet(files) :
          InGatheredFolder(p) =>
              \E g \in gathered.files : g.name = basename(p, os_name)

\* what it shows when the duplicate check fails: the colliding paths are
\* logged as they were listed, not as relocated
CollisionsOverOriginalPaths ==
    \A p \in LoggedPaths : ~InGatheredFolder(p) /\ ~StartsWith(p, LongPrefix)

\* a step in which an assembler ends with the ValueError of the duplicate
\* check copies nothing
NoCopyBeforeDuplicateCheck ==
    (\/ asm_result' # asm_result /\ asm_result'.status = "ValueError"
     \/ legacy_result' # legacy_result /\ legacy_result'.status = "ValueError")
    => gathered' = gathered

\* C25: in one assembler run all listfiles are expanded, then basename
\* collisions are checked on the paths as listed, then dependency files are
\* relocated, then the list is sorted: the returned list is sorted over the
\* final paths, relocated entries included; a collision among the listed
\* paths ends the run with the paths logged as listed; and no file is copied
\* before the duplicate check has passed.
C25_StepOrder ==
    /\ [](/\ asm_result.status = "ok" => SortedOverFinalPaths(asm_result.files)
          /\ legacy_result.status = "ok" => SortedOverFinalPaths(legacy_result.files)
          /\ CollisionsOverOriginalPaths
          /\ (CheckedAsListed /\ ListedTwice) =>
                /\ asm_result # NotAssembled => asm_result.status = "ValueError"
                /\ legacy_result # NotAssembled => legacy_result.status = "ValueError")
    /\ [][NoCopyBeforeDuplicateCheck]_vars

\* a dependency listed twice: the run ended at the duplicate check, the log
\* names the path as listed and nothing was copied
C25_Witness ==
    /\ listfiles[1].lines = <<F_dep_z, F_dep_z>>
    /\ asm_result.status = "ValueError"
    /\ LoggedPaths = {F_dep_z}
    /\ gathered = NoGathered


\* C26: every path of a list the assembler returned uses forward slashes
\* only: it holds no backslash, on every platform, for relocated and for
\* other entries alike.
C26_ForwardSlashesOnly ==
    /\ asm_result.status = "ok" =>
          \A p \in PathSet(asm_result.files) : ~Contains(p, <<"\\">>)
    /\ legacy_result.status = "ok" =>
          \A p \in PathSet(legacy_result.files) : ~Contains(p, <<"\\">>)

\* the same where os.name is posix
ForwardSlashesOnPosix ==
    (os_name = "posix" /\ asm_result.status = "ok") =>
        \A p \in PathSet(asm_result.files) : ~Contains(p, <<"\\">>)

\* C27: a failed assembly leaves the consolidated dependency directory as it
\* was: a step in which get_vivado_project_files ends with a missing
\* listfile, with duplicates or with a failed copy adds no file to
\* objects/gathereddeps and overwrites none.
C27_FailureLeavesGathered ==
    [][(/\ asm_result' # asm_result
        /\ asm_result'.status \in {"FileNotFoundError", "ValueError", "IOError"})
       => gathered'.files = gathered.files]_vars

\* the same for the failures that come before the first copy
EarlyFailureLeavesGathered ==
    [][(/\ asm_result' # asm_result
        /\ asm_result'.status \in {"FileNotFoundError", "ValueError"})
       => gathered' = gathered]_vars

----------------------------------------------------------------------------
(* Claims about the tree query helpers, checked under SpecClip and SpecTree *)

SameIgnoringCase(a, b) == LowerStr(a) = LowerStr(b)

\* what each drawn query asks for: a child by tag, a descendant by tag, a
\* descendant by tag and attribute value, or the children by tag of the
\* descendants with a parent tag
Asked(form, tag, attr, value, child) ==
    [form |-> form, tag |-> tag, attr |-> attr, value |-> value, child |-> child]

QueryOf(xpath) ==
    IF xpath = <<".", "/", "/", "I", "n", "t", "e", "r", "f", "a", "c", "e", "[", "@", "N", "a", "m", "e", "=", "'", "L", "a", "b", "V", "I", "E", "W", "'", "]">>
    THEN Asked("attribute", <<"I", "n", "t", "e", "r", "f", "a", "c", "e">>, <<"N", "a", "m", "e">>, <<"L", "a", "b", "V", "I", "E", "W">>, <<>>)
    ELSE IF xpath = <<".", "/", "/", "i", "n", "t", "e", "r", "f", "a", "c", "e", "[", "@", "N", "A", "M", "E", "=", "\"", "M", "i", "s", "s", "i", "n", "g", "\"", "]">>
    THEN Asked("attribute", <<"i", "n", "t", "e", "r", "f", "a", "c", "e">>, <<"N", "A", "M", "E">>, <<"M", "i", "s", "s", "i", "n", "g">>, <<>>)
    ELSE IF xpath = <<".", "/", "/", "M", "i", "s", "s", "i", "n", "g", "[", "@", "N", "a", "m", "e", "=", "'", "L", "a", "b", "V", "I", "E", "W", "'", "]">>
    THEN Asked("attribute", <<"M", "i", "s", "s", "i", "n", "g">>, <<"N", "a", "m", "e">>, <<"L", "a", "b", "V", "I", "E", "W">>, <<>>)
    ELSE IF xpath = <<".", "/", "/", "S", "i", "g", "n", "a", "l", "L", "i", "s", "t", "/", "S", "i", "g", "n", "a", "l">>
    THEN Asked("path", <<"S", "i", "g", "n", "a", "l", "L", "i", "s", "t">>, <<>>, <<>>, <<"S", "i", "g", "n", "a", "l">>)
    ELSE IF xpath = <<".", "/", "/", "M", "i", "s", "s", "i", "n", "g", "/", "S", "i", "g", "n", "a", "l">>
    THEN Asked("path", <<"M", "i", "s", "s", "i", "n", "g">>, <<>>, <<>>, <<"S", "i", "g", "n", "a", "l">>)
    ELSE IF xpath = <<".", "/", "/", "S", "i", "g", "n", "a", "l", "L", "i", "s", "t", "/", "M", "i", "s", "s", "i", "n", "g">>
    THEN Asked("path", <<"S", "i", "g", "n", "a", "l", "L", "i", "s", "t">>, <<>>, <<>>, <<"M", "i", "s", "s", "i", "n", "g">>)
    ELSE IF StartsWith(xpath, <<".", "/", "/">>)
    THEN Asked("descendant", SubSeq(xpath, 4, Len(xpath)), <<>>, <<>>, <<>>)
    ELSE Asked("child", xpath, <<>>, <<>>, <<>>)

\* the elements of the subtree of an element, itself included
Subtree(element) == {i \in 1..Len(xml_tree) : XWithin(xml_tree, element, i)}

\* the elements a query on an element denotes
Denoted(element, q) ==
    IF element = 0 THEN {}
    ELSE IF q.form = "child"
    THEN {i \in 1..Len(xml_tree) :
            xml_tree[i].parent = element /\ SameIgnoringCase(xml_tree[i].tag, q.tag)}
    ELSE IF q.form = "descendant"
    THEN {i \in Subtree(element) : SameIgnoringCase(xml_tree[i].tag, q.tag)}
    ELSE IF q.form = "attribute"
    THEN {i \in Subtree(element) :
            /\ SameIgnoringCase(xml_tree[i].tag, q.tag)
            /\ \E k \in 1..Len(xml_tree[i].attrib) :
                  /\ SameIgnoringCase(xml_tree[i].attrib[k].name, q.attr)
                  /\ SameIgnoringCase(xml_tree[i].attrib[k].value, q.value)}
    ELSE {i \in 1..Len(xml_tree) :
            /\ xml_tree[i].parent \in Subtree(element)
            /\ SameIgnoringCase(xml_tree[xml_tree[i].parent].tag, q.tag)
            /\ SameIgnoringCase(xml_tree[i].tag, q.child)}

\* the drawn descriptor has a LabVIEW interface with a named signal
HasNamedSignal ==
    /\ Len(xml_tree) >= 4
    /\ xml_tree[2].attrib # <<>>
    /\ SameIgnoringCase(xml_tree[2].attrib[1].value, <<"L", "a", "b", "V", "I", "E", "W">>)
    /\ xml_tree[4].attrib # <<>>

\* the signal of the drawn descriptor has no child with this tag
SignalLacks(tag) ==
    \A i \in 1..Len(xml_tree) :
        xml_tree[i].parent = 4 => ~SameIgnoringCase(xml_tree[i].tag, tag)

\* C18: a lookup that matches nothing does not raise: find_case_insensitive
\* gives None and findall_case_insensitive an empty list when the element is
\* None, when no child or descendant has the tag, or when no element has the
\* attribute value asked for; get_element_text and
\* get_attribute_case_insensitive then give their default; and a signal
\* with a missing optional child still gets its row.
C18_NothingFoundNoError ==
    /\ lookup.helper \in {"find", "findall"} =>
          /\ lookup.exc = "none"
          /\ Denoted(lookup.element, QueryOf(lookup.xpath)) = {} => lookup.nodes = <<>>
    /\ lookup.helper = "get_attribute" =>
          ((\/ lookup.element = 0
            \/ \A k \in 1..Len(xml_tree[lookup.element].attrib) :
                  ~SameIgnoringCase(xml_tree[lookup.element].attrib[k].name, lookup.xpath))
           => lookup.value = <<>>)
    /\ lookup.helper = "get_element_text" =>
          (Denoted(lookup.element, QueryOf(lookup.xpath)) = {} => lookup.value = S_NA)
    /\ (clip_csv # NoClipCsv /\ HasNamedSignal) =>
          /\ clip_csv.status = "ok"
          /\ Len(clip_csv.rows) = 1
          /\ SignalLacks(<<"H", "D", "L", "N", "a", "m", "e">>) => clip_csv.rows[1][2] = S_NA
          /\ SignalLacks(<<"D", "a", "t", "a", "T", "y", "p", "e">>) => clip_csv.rows[1][5] = S_NA
          /\ SignalLacks(<<"U", "s", "e", "I", "n", "L", "a", "b", "V", "I", "E", "W", "S", "i", "n", "g", "l", "e", "C", "y", "c", "l", "e", "T", "i", "m", "e", "d", "L", "o", "o", "p">>) => clip_csv.rows[1][6] = <<>>
          /\ SignalLacks(<<"R", "e", "q", "u", "i", "r", "e", "d", "C", "l", "o", "c", "k", "D", "o", "m", "a", "i", "n">>) => clip_csv.rows[1][7] = <<>>

\* a named signal without HDLName, DataType and RequiredClockDomain got its row
C18_Witness ==
    /\ HasNamedSignal
    /\ SignalLacks(<<"H", "D", "L", "N", "a", "m", "e">>) /\ SignalLacks(<<"D", "a", "t", "a", "T", "y", "p", "e">>) /\ SignalLacks(<<"R", "e", "q", "u", "i", "r", "e", "d", "C", "l", "o", "c", "k", "D", "o", "m", "a", "i", "n">>)
    /\ clip_csv.status = "ok"
    /\ clip_csv.rows = <<<<<<"I", "O", " ", "S", "o", "c", "k", "e", "t", "\\", "G", "r", "p", "\\", "C", "h", "0">>, S_NA, <<"o", "u", "t", "p", "u", "t">>, S_NA, S_NA, <<>>, <<>>>>>>

\* the elements of a set in document order
RECURSIVE InDocumentOrder(_)
InDocumentOrder(S) ==
    IF S = {} THEN <<>> ELSE <<SetMin(S)>> \o InDocumentOrder(S \ {SetMin(S)})

\* C19: findall_case_insensitive with the two-level path
\* './/parentTag/childTag' returns exactly the direct children, with tag
\* childTag ignoring case, of the elements of the subtree (the queried
\* element included) with tag parentTag ignoring case; each once, in
\* document order, and nothing else.
C19_TwoLevelPath ==
    (lookup.helper = "findall" /\ QueryOf(lookup.xpath).form = "path")
    => /\ lookup.exc = "none"
       /\ lookup.nodes = InDocumentOrder(Denoted(lookup.element, QueryOf(lookup.xpath)))

\* the same without the order: each denoted child once, and nothing else
TwoLevelPathAsSet ==
    (lookup.helper = "findall" /\ QueryOf(lookup.xpath).form = "path")
    => /\ {lookup.nodes[k] : k \in 1..Len(lookup.nodes)}
          = Denoted(lookup.element, QueryOf(lookup.xpath))
       /\ Len(lookup.nodes) = Cardinality(Denoted(lookup.element, QueryOf(lookup.xpath)))

----------------------------------------------------------------------------
(* Claims about create_project_handler, checked under SpecProject *)

\* the handler was called: project_run is the record of its last call
HandlerCalled == project_run.status # "none"

\* the rows of the decision table: what each combination of the flags and
\* of the existence of the project file leads to
DecisionTable ==
    /\ (~project_run.overwrite /\ ~project_run.updatefiles /\ ~project_run.existed)
          => project_run.mode = "new"
    /\ (~project_run.overwrite /\ ~project_run.updatefiles /\ project_run.existed)
          => project_run.mode = "none" /\ project_run.status = "FileExistsError"
    /\ (~project_run.overwrite /\ project_run.updatefiles /\ project_run.existed)
          => project_run.mode = "update"
    /\ (~project_run.overwrite /\ project_run.updatefiles /\ ~project_run.existed)
          => project_run.mode = "none" /\ project_run.status = "FileNotFoundError"
    /\ (project_run.overwrite /\ ~project_run.updatefiles)
          => project_run.mode = "new"
    /\ (project_run.overwrite /\ project_run.updatefiles)
          => project_run.mode = "none" /\ project_run.status = "ValueError"

\* a call that ended in an error of the table left no trace of create_project
NothingGenerated ==
    project_run.mode = "none"
    => ~project_run.tcl /\ ~project_run.target_support /\ project_run.vivado = "none"

\* a step that records a call ending in an error of the table changes
\* nothing that create_project writes
ErrorStepTouchesNothing ==
    (project_run' # project_run /\ project_run'.status # "none" /\ project_run'.mode = "none")
    => UNCHANGED <<asm_result, dup_log, gathered, dup_checked, project_file>>

\* C20: create_project_handler follows its decision table for every
\* combination of overwrite, updatefiles and the existence of the project
\* file: NEW without flags and without a project, FileExistsError without
\* flags with a project, UPDATE with updatefiles and a project,
\* FileNotFoundError with updatefiles and no project, NEW with overwrite,
\* ValueError with both flags; in every error case create_project is not
\* called, and nothing is gathered, copied or generated.
C20_DecisionTable ==
    /\ [](HandlerCalled => DecisionTable /\ NothingGenerated)
    /\ [][ErrorStepTouchesNothing]_vars

\* an update was asked for a project that does not exist, after an earlier
\* run had gathered files: the error leaves what was gathered as it was
C20_Witness ==
    /\ project_run.updatefiles /\ ~project_run.overwrite /\ ~project_run.existed
    /\ project_run.status = "FileNotFoundError"
    /\ project_run.mode = "none"
    /\ gathered # NoGathered
    /\ asm_result.status = "ok"

----------------------------------------------------------------------------
(* Claims about the migration run, checked under SpecMigrate *)

\* main has run
MigrationEnded == migrate_run.status # "none"

\* a fatal condition of a step: the descriptor missing or malformed, the HDL
\* top file missing, an XDC file missing or unreadable, or a failure while
\* the signal declarations are written
FatalCondition ==
    \/ migrate_env.xml \in {"missing", "malformed"}
    \/ migrate_env.hdl = "missing"
    \/ \E k \in 1..Len(migrate_env.xdc) : migrate_env.xdc[k] \in {"missing", "unreadable"}
    \/ migrate_env.xml = "bad_type"
    \/ ~migrate_env.decl_writable

\* every step did its work
EveryStepSucceeded ==
    /\ migrate_run.csv
    /\ migrate_run.inst = "entity"
    /\ \A k \in 1..Len(migrate_env.xdc) :
          k \in 1..Len(migrate_run.xdc) /\ migrate_run.xdc[k]
    /\ migrate_run.decl = "complete"

\* C21: any fatal condition met by a step of the migration run makes main
\* end with a non-zero status; main returns 0 and prints the success
\* message only when every step succeeded.
C21_FatalIsNonZero ==
    MigrationEnded =>
        /\ FatalCondition => migrate_run.code # 0 /\ ~migrate_run.success
        /\ (migrate_run.code = 0 \/ migrate_run.success) => EveryStepSucceeded

\* the part that holds: a descriptor that is missing, malformed or without
\* LabVIEW interface, and a missing configuration, end the run with status 1
DescriptorFailureIsNonZero ==
    (MigrationEnded /\ (\/ migrate_env.xml \in {"missing", "malformed", "no_interface"}
                        \/ migrate_env.config # "ok"))
    => migrate_run.code = 1 /\ ~migrate_run.success

----------------------------------------------------------------------------
(* Claims about the working directory, checked under SpecProcess *)

\* create_project was called and returned normally
ReturnedNormally == project_call.mode # "none" /\ project_call.status = "ok"

\* C28: create_project leaves the working directory of the process as it
\* was: after every call that returns normally, in NEW or UPDATE mode, with
\* XILINX set or not, the working directory is the one before the call.
C28_WorkingDirectoryKept ==
    ReturnedNormally => project_call.cwd_after = project_call.cwd_before

\* the same where XILINX is set: the directory is changed back
WorkingDirectoryKeptWithXilinx ==
    (ReturnedNormally /\ xilinx) => project_call.cwd_after = project_call.cwd_before

\* what follows without XILINX: the next call finds no listfile
NextCallFindsNoListfile ==
    (project_call.mode # "none" /\ project_call.cwd_before = VivadoProjectDir)
    => project_call.status = "FileNotFoundError"


----------------------------------------------------------------------------
(* Claims about the resource hierarchy, checked under SpecHierarchy *)

\* the segments of a logical name after the prefix IO Socket\, delimited by
\* dots and backslashes
Segments(lv_name) == Split(Replace(SubSeq(lv_name, 11, Len(lv_name)), "\\", "."), ".")

\* the names of the ResourceLists from below BoardIO down to an element
RECURSIVE Chain(_, _)
Chain(tree, n) ==
    IF n <= 2 THEN <<>>
    ELSE Append(Chain(tree, tree[n].parent), tree[n].attrib["name"])

\* the elements above an element, BoardIO excluded
RECURSIVE Above(_, _)
Above(tree, n) == IF n <= 2 THEN {} ELSE {n} \cup Above(tree, tree[n].parent)

ResourceLists(tree) == {i \in 1..Len(tree) : tree[i].tag = "ResourceList"}

NoTwinResourceLists(tree) ==
    \A i, j \in ResourceLists(tree) :
        (i # j /\ tree[i].parent = tree[j].parent)
        => tree[i].attrib["name"] # tree[j].attrib["name"]

UnderItsChain(tree) ==
    \A i \in 1..Len(tree) :
        tree[i].tag = "IOResource" =>
            LET segments == Segments(tree[i].attrib["name"])
            IN  /\ Above(tree, tree[i].parent) \subseteq ResourceLists(tree)
                /\ Chain(tree, tree[i].parent) = SubSeq(segments, 1, Len(segments) - 1)

\* C30: after generate_xml_from_csv has gone through the rows, no
\* ResourceList has two ResourceList children of the same name, and every
\* IOResource is under the chain of ResourceLists named by the segments of
\* its logical name but the last, in whatever order the rows arrive.
C30_ResourceHierarchy ==
    xml_out.status = "ok" =>
        /\ NoTwinResourceLists(xml_out.boardio)
        /\ UnderItsChain(xml_out.boardio)

\* the rows Grp\Ch1, Ch0, Grp.Sub\Ch3, the group met again after a row
\* outside it: one ResourceList Grp, with Ch1 and the ResourceList Sub in it
C30_Witness ==
    /\ xml_out.status = "ok"
    /\ Len(csv_table) = 3
    /\ csv_table[1].LVName = <<"I", "O", " ", "S", "o", "c", "k", "e", "t", "\\", "G", "r", "p", "\\", "C", "h", "1">>
    /\ csv_table[2].LVName = <<"I", "O", " ", "S", "o", "c", "k", "e", "t", "\\", "C", "h", "0">>
    /\ csv_table[3].LVName = <<"I", "O", " ", "S", "o", "c", "k", "e", "t", "\\", "G", "r", "p", ".", "S", "u", "b", "\\", "C", "h", "3">>
    /\ Cardinality({i \in ResourceLists(xml_out.boardio) :
                        xml_out.boardio[i].attrib["name"] = <<"G", "r", "p">>}) = 1
    /\ \E i \in IOResourcesOf(<<"I", "O", " ", "S", "o", "c", "k", "e", "t", "\\", "G", "r", "p", ".", "S", "u", "b", "\\", "C", "h", "3">>) :
          Chain(xml_out.boardio, xml_out.boardio[i].parent) = <<<<"G", "r", "p">>, <<"S", "u", "b">>>>
=============================================================================
